---- MODULE Spec2Model ----
(***************************************************************************)
(* Model of the spec-driven request pipeline of the eBay API MCP server:   *)
(* environment/domain rewriting, path routing, parameter validation and    *)
(* the generic invoke tool (invokeAPI / call_ebay_api).                    *)
(*                                                                         *)
(* Text is modelled as a sequence of pieces: single characters, or words   *)
(* without special characters.  A URL is a record                          *)
(*   [scheme, host, path, query]                                           *)
(* whose text is scheme, host, the "/"-joined path, "?" and the query.  A  *)
(* path segment is [kind, name]: "lit" prints name, "var" prints {name},   *)
(* "enc" prints %7Bname%7D.  A URL with scheme "" has no scheme and is     *)
(* rejected by the URL parser (new URL throws).                            *)
(***************************************************************************)
EXTENDS Integers, Sequences, FiniteSets, TLC

VARIABLES
  USER_ENVIRONMENT,    \* the configured environment, fixed at startup
  pc,                  \* position of the running handler / function call
  input,               \* the arguments of the invocation
  specResponse,        \* what the specification lookup service answers
  headers,             \* the handler's header map
  openApiDoc,          \* the document the handler validates against
  reqParamValidation,  \* the result of validateRequestParameters
  requests,            \* the requests sent to the marketplace API, in order
  result,              \* the payload the handler returned
  ret,                 \* the value returned by a function under test
  docs,                \* the documents loaded at startup, in order
  server               \* the MCP server: registered tools, transport

vars == <<USER_ENVIRONMENT, pc, input, specResponse, headers, openApiDoc,
          reqParamValidation, requests, result, ret, docs, server>>

----------------------------------------------------------------------------
(* constants.ts *)

SANDBOX == "sandbox"
PRODUCTION == "production"
ApiEnvironment == {SANDBOX, PRODUCTION}

DOMAIN_NAME(env) ==
  IF env = SANDBOX THEN "api.sandbox.ebay.com" ELSE "api.ebay.com"

\* Object.entries(DOMAIN_NAME): the environments in declaration order.
DomainEntries == <<SANDBOX, PRODUCTION>>

----------------------------------------------------------------------------
(* generic sequence helpers *)

RECURSIVE Flatten(_)
Flatten(ss) == IF ss = <<>> THEN <<>> ELSE Head(ss) \o Flatten(Tail(ss))

Range(s) == {s[i] : i \in 1..Len(s)}

\* Array.prototype.join(sep) on a sequence of texts.
RECURSIVE Join(_, _)
Join(texts, sep) ==
  IF texts = <<>> THEN <<>>
  ELSE IF Len(texts) = 1 THEN texts[1]
  ELSE texts[1] \o sep \o Join(Tail(texts), sep)

----------------------------------------------------------------------------
(* URLs *)

Lit(n) == [kind |-> "lit", name |-> n]
Var(n) == [kind |-> "var", name |-> n]
Enc(n) == [kind |-> "enc", name |-> n]

SegText(seg) ==
  IF seg.kind = "var" THEN <<"{">> \o seg.name \o <<"}">>
  ELSE IF seg.kind = "enc" THEN <<"%7B">> \o seg.name \o <<"%7D">>
  ELSE seg.name

PathText(segs) == Flatten([i \in 1..Len(segs) |-> <<"/">> \o SegText(segs[i])])

\* new URL(url) succeeds only on an absolute URL.
UrlParses(url) == url.scheme # ""

\* The WHATWG serializer percent-encodes "{" and "}" of a path.
SerializeSeg(seg) == IF seg.kind = "var" THEN Enc(seg.name) ELSE seg

SerializePath(segs) == [i \in 1..Len(segs) |-> SerializeSeg(segs[i])]

\* A serializer that rebuilds the URL from origin and pathname only.
UrlToString_DropsQuery(url, host) ==
  [scheme |-> url.scheme, host |-> host,
   path |-> [i \in 1..Len(url.path) |->
               IF url.path[i].kind = "var"
               THEN [kind |-> "enc", name |-> url.path[i].name]
               ELSE url.path[i]],
   query |-> <<>>]

\* urlObj.toString() after urlObj.hostname = host
UrlToString(url, host) ==
  [scheme |-> url.scheme, host |-> host,
   path |-> SerializePath(url.path), query |-> url.query]

\* decodeURIComponent on the pathname: %7B..%7D becomes {..}, %7C becomes |,
\* and %2F becomes a "/", which ends the segment.
DecodePiece(p) == IF p = "%7C" THEN "|" ELSE p

RECURSIVE SplitDecoded(_, _)
SplitDecoded(name, cur) ==
  IF name = <<>> THEN <<Lit(cur)>>
  ELSE IF Head(name) = "%2F" THEN <<Lit(cur)>> \o SplitDecoded(Tail(name), <<>>)
  ELSE SplitDecoded(Tail(name), Append(cur, DecodePiece(Head(name))))

DecodeSeg(seg) ==
  IF seg.kind = "enc" THEN <<Var(seg.name)>>
  ELSE IF seg.kind = "var" THEN <<seg>>
  ELSE SplitDecoded(seg.name, <<>>)

DecodePath(segs) == Flatten([i \in 1..Len(segs) |-> DecodeSeg(segs[i])])

\* encodeURIComponent, piece by piece.
EncodePiece(p) ==
  IF p = "/" THEN "%2F"
  ELSE IF p = "|" THEN "%7C"
  ELSE IF p = "{" THEN "%7B"
  ELSE IF p = "}" THEN "%7D"
  ELSE IF p = "," THEN "%2C"
  ELSE p

EncodeURIComponent(text) == [i \in 1..Len(text) |-> EncodePiece(text[i])]

\* String.prototype.includes(domain) on the text of a URL without scheme:
\* a domain occurs as the host or as a piece of the query.
UrlIncludes(url, domain) ==
  url.host = domain \/ \E i \in 1..Len(url.query) : url.query[i] = domain

\* String.prototype.replace(domain, expected): the first occurrence only.
FirstIndex(q, domain) ==
  CHOOSE i \in 1..Len(q) : q[i] = domain /\ \A j \in 1..(i - 1) : q[j] # domain

ReplaceFirst(url, domain, expected) ==
  IF url.host = domain THEN [url EXCEPT !.host = expected]
  ELSE LET q == url.query
       IN [url EXCEPT !.query = [q EXCEPT ![FirstIndex(q, domain)] = expected]]

\* The catch branch of replaceDomainNameByEnvironment: the first entry of
\* DOMAIN_NAME of another environment whose domain the text includes.
RECURSIVE ReplaceByEntries(_, _)
ReplaceByEntries(url, entries) ==
  IF entries = <<>> THEN url
  ELSE IF Head(entries) # USER_ENVIRONMENT
          /\ UrlIncludes(url, DOMAIN_NAME(Head(entries)))
       THEN ReplaceFirst(url, DOMAIN_NAME(Head(entries)),
                         DOMAIN_NAME(USER_ENVIRONMENT))
       ELSE ReplaceByEntries(url, Tail(entries))

replaceDomainNameByEnvironment(url) ==
  IF UrlParses(url)
  THEN IF url.host # DOMAIN_NAME(USER_ENVIRONMENT)
       THEN UrlToString(url, DOMAIN_NAME(USER_ENVIRONMENT))
       ELSE url
  ELSE ReplaceByEntries(url, DomainEntries)

\* String(value)
String(v) ==
  IF v.t = "null" THEN <<"null">>
  ELSE IF v.t = "undefined" THEN <<"undefined">>
  ELSE IF v.t = "array" THEN Join([i \in 1..Len(v.items) |-> v.items[i].s], <<",">>)
  ELSE v.s

\* buildFinalUrl: every %7Bkey%7D of the URL text is replaced by the encoded
\* value; urlVariables is [present, map], map a sequence of [k, v].
ReplaceEncoded(url, key, value) ==
  [url EXCEPT !.path =
     [i \in 1..Len(url.path) |->
        IF url.path[i] = Enc(key) THEN Lit(EncodeURIComponent(value))
        ELSE url.path[i]]]

RECURSIVE ReplaceAllEncoded(_, _)
ReplaceAllEncoded(url, entries) ==
  IF entries = <<>> THEN url
  ELSE ReplaceAllEncoded(ReplaceEncoded(url, Head(entries).k, String(Head(entries).v)),
                         Tail(entries))

buildFinalUrl(url, urlVariables) ==
  IF urlVariables.present THEN ReplaceAllEncoded(url, urlVariables.map) ELSE url

----------------------------------------------------------------------------
(* validation-helper.ts: routing *)

\* parseApiPathFromUrl.  A URL the parser rejects has, in this model, no
\* "http://" or "https://" for the fallback pattern either: the result is "".
parseApiPathFromUrl(inputUrl) ==
  IF UrlParses(inputUrl)
  THEN [empty |-> FALSE, segs |-> DecodePath(inputUrl.path)]
  ELSE [empty |-> TRUE, segs |-> <<>>]

\* One segment of a template against one segment of the path: "{name}" was
\* replaced by [^/]+, every other segment must be the same text.
SegMatches(tseg, pseg) ==
  IF tseg.kind = "var" THEN SegText(pseg) # <<>>
  ELSE SegText(tseg) = SegText(pseg)

\* new RegExp(template.replace(/\{[^}]+\}/g, "[^/]+") + "$").test(apiPath):
\* anchored at the end only, so the template has to match a suffix of the path.
RegexTest(template, segs) ==
  /\ Len(template) <= Len(segs)
  /\ \A i \in 1..Len(template) :
        SegMatches(template[i], segs[Len(segs) - Len(template) + i])

\* The base path of the document: the default of server variable basePath.
BasePathOf(doc) == doc.basePath

NoPathItem == [path |-> <<>>, item |-> <<>>]

NotFound(apiPath) ==
  [pathValidateRes |-> FALSE, apiPath |-> apiPath,
   specPath |-> <<>>, specPathItem |-> NoPathItem, found |-> FALSE]

\* A loop that does not stop at the first match: the last template wins.
RECURSIVE FirstMatch_LastWins(_, _)
FirstMatch_LastWins(paths, segs) ==
  IF paths = <<>> THEN NotFound(PathText(segs))
  ELSE LET rest == FirstMatch_LastWins(Tail(paths), segs)
       IN IF rest.found THEN rest
          ELSE IF RegexTest(Head(paths).path, segs)
          THEN [pathValidateRes |-> TRUE, apiPath |-> PathText(segs),
                specPath |-> PathText(Head(paths).path),
                specPathItem |-> Head(paths), found |-> TRUE]
          ELSE rest

\* The loop over Object.keys(openApiDoc.paths): the first template that matches.
RECURSIVE FirstMatch(_, _)
FirstMatch(paths, segs) ==
  IF paths = <<>> THEN NotFound(PathText(segs))
  ELSE IF RegexTest(Head(paths).path, segs)
       THEN [pathValidateRes |-> TRUE, apiPath |-> PathText(segs),
             specPath |-> PathText(Head(paths).path),
             specPathItem |-> Head(paths), found |-> TRUE]
       ELSE FirstMatch(Tail(paths), segs)

validatePath(doc, inputUrl) ==
  LET parsed == parseApiPathFromUrl(inputUrl)
      basePath == BasePathOf(doc)
  IN IF parsed.empty THEN NotFound(<<>>)
     ELSE IF basePath # <<>> /\ ~RegexTest(basePath, parsed.segs)
          THEN NotFound(PathText(parsed.segs))
          ELSE FirstMatch(doc.paths, parsed.segs)

----------------------------------------------------------------------------
(* JavaScript values: [t, s, items].  t is the type, s the text of a string  *)
(* or the literal of a number or boolean, items the elements of an array.   *)

Str(text) == [t |-> "string", s |-> text, items |-> <<>>]
Num(text) == [t |-> "number", s |-> text, items |-> <<>>]
Bool(b) == [t |-> "boolean", s |-> IF b THEN <<"true">> ELSE <<"false">>, items |-> <<>>]
Arr(elems) == [t |-> "array", s |-> <<>>, items |-> elems]
Null == [t |-> "null", s |-> <<>>, items |-> <<>>]
Undefined == [t |-> "undefined", s |-> <<>>, items |-> <<>>]
NaN == Num(<<"NaN">>)

\* An element of an array value: a value without elements of its own.
Elem(v) == [t |-> v.t, s |-> v.s]

\* map[key] on an object kept as a sequence of [k, v] in insertion order.
RECURSIVE Get(_, _)
Get(map, key) ==
  IF map = <<>> THEN Undefined
  ELSE IF Head(map).k = key THEN Head(map).v
  ELSE Get(Tail(map), key)

\* Object.keys
Keys(map) == [i \in 1..Len(map) |-> map[i].k]

Digits == {"0", "1", "2", "3", "4", "5", "6", "7", "8", "9"}

IsDigits(text) == text # <<>> /\ \A i \in 1..Len(text) : text[i] \in Digits

IsZeros(text) == \A i \in 1..Len(text) : text[i] = "0"

\* Number(string) on the strings of the model: "" is 0, a run of digits is
\* an integer, digits "." digits is a decimal (an integer when the fraction
\* is zero), anything else is NaN.
Number(text) ==
  IF text = <<>> THEN Num(<<"0">>)
  ELSE IF IsDigits(text) THEN Num(text)
  ELSE IF \E i \in 2..(Len(text) - 1) :
            /\ text[i] = "."
            /\ IsDigits(SubSeq(text, 1, i - 1))
            /\ IsDigits(SubSeq(text, i + 1, Len(text)))
       THEN LET i == CHOOSE j \in 2..(Len(text) - 1) : text[j] = "."
            IN IF IsZeros(SubSeq(text, i + 1, Len(text)))
               THEN Num(SubSeq(text, 1, i - 1))
               ELSE Num(text)
  ELSE NaN

\* String.prototype.toLowerCase, piece by piece.
LowerPiece(p) ==
  CASE p = "T" -> "t" [] p = "R" -> "r" [] p = "U" -> "u" [] p = "E" -> "e"
    [] p = "F" -> "f" [] p = "A" -> "a" [] p = "L" -> "l" [] p = "S" -> "s"
    [] p = "PRODUCTION" -> "production" [] p = "Sandbox" -> "sandbox"
    [] p = "GET" -> "get" [] p = "POST" -> "post" [] p = "Get" -> "get"
    [] p = "X-EBAY-C-MARKETPLACE-ID" -> "x-ebay-c-marketplace-id"
    [] p = "Host" -> "host" [] p = "HOST" -> "host"
    [] p = "Authorization" -> "authorization"
    [] p = "AUTHORIZATION" -> "authorization"
    [] p = "Content-Type" -> "content-type"
    [] p = "User-Agent" -> "user-agent"
    [] OTHER -> p

ToLowerCase(text) == [i \in 1..Len(text) |-> LowerPiece(text[i])]

\* String.prototype.split(",")
RECURSIVE SplitComma(_, _)
SplitComma(text, cur) ==
  IF text = <<>> THEN <<cur>>
  ELSE IF Head(text) = "," THEN <<cur>> \o SplitComma(Tail(text), <<>>)
  ELSE SplitComma(Tail(text), Append(cur, Head(text)))

Split(text) ==
  LET parts == SplitComma(text, <<>>)
  IN Arr([i \in 1..Len(parts) |-> Elem(Str(parts[i]))])

----------------------------------------------------------------------------
(* Ajv: a schema is [present, type, items]; type "" declares no type.        *)

NoSchema == [present |-> FALSE, type |-> "", items |-> ""]
Schema(type) == [present |-> TRUE, type |-> type, items |-> ""]
ArraySchema(itemType) == [present |-> TRUE, type |-> "array", items |-> itemType]

IsInteger(v) == v.t = "number" /\ IsDigits(v.s)

\* The check of keyword "type" for one type name (strictNumbers: NaN is
\* neither a number nor an integer).
TypeOk(type, v) ==
  CASE type = "integer" -> IsInteger(v)
    [] type = "number" -> v.t = "number" /\ v # NaN
    [] type = "boolean" -> v.t = "boolean"
    [] type = "string" -> v.t = "string"
    [] type = "array" -> v.t = "array"
    [] type = "null" -> v.t = "null"
    [] OTHER -> TRUE

\* validate(value) of the compiled schema
AjvValidate(schema, v) ==
  /\ TypeOk(schema.type, v)
  /\ (schema.type = "array" /\ v.t = "array") =>
        \A i \in 1..Len(v.items) :
          TypeOk(schema.items, [t |-> v.items[i].t, s |-> v.items[i].s,
                                items |-> <<>>])

\* ajv.errorsText(validate.errors)
ErrorsText(schema, v) ==
  IF ~TypeOk(schema.type, v) THEN <<"data must be ", schema.type>>
  ELSE <<"data/i must be ", schema.items>>

----------------------------------------------------------------------------
(* validation-helper.ts: the four location checks.  A parameter is          *)
(* [name, in, required, schema, style, explode]; an optional map of the      *)
(* caller is [present, map].                                                *)

Absent == [present |-> FALSE, map |-> <<>>]
Present(map) == [present |-> TRUE, map |-> map]

InPath(param) == param.in = "path"
InQuery(param) == param.in = "query"
InHeader(param) == param.in = "header"
RequiredInPath(param) == param.in = "path" /\ param.required

Names(params) == [i \in 1..Len(params) |-> params[i].name]

\* The loop of validateUrlPathParam over the declared path parameters.
RECURSIVE PathParamLoop(_, _)
PathParamLoop(pathParams, map) ==
  IF pathParams = <<>> THEN <<>>
  ELSE LET param == Head(pathParams)
           value == Get(map, param.name)
           here ==
             IF param.required /\ (value = Undefined \/ value = Null)
             THEN <<<<"Missing required path parameter: ">> \o param.name>>
             ELSE IF value # Undefined /\ param.schema.present
                     /\ ~AjvValidate(param.schema, value)
             THEN <<<<"Invalid path parameter ">> \o param.name \o <<": ">>
                     \o ErrorsText(param.schema, value)>>
             ELSE <<>>
       IN here \o PathParamLoop(Tail(pathParams), map)

\* The path check without the second pass over the required parameters.
validateUrlPathParam_NoRecheck(urlVariables, parameters) ==
  IF urlVariables.present
  THEN LET pathParams == SelectSeq(parameters, InPath)
           definedPathParams == Names(pathParams)
           IsExtra(key) == key \notin Range(definedPathParams)
           extraParams == SelectSeq(Keys(urlVariables.map), IsExtra)
       IN PathParamLoop(pathParams, urlVariables.map)
          \o (IF Len(extraParams) > 0
              THEN <<<<"Unknown path parameters: ">> \o Join(extraParams, <<", ">>)>>
              ELSE <<>>)
  ELSE <<>>

validateUrlPathParam(urlVariables, parameters) ==
  IF urlVariables.present
  THEN LET pathParams == SelectSeq(parameters, InPath)
           definedPathParams == Names(pathParams)
           IsExtra(key) == key \notin Range(definedPathParams)
           extraParams == SelectSeq(Keys(urlVariables.map), IsExtra)
           requiredPathParams == Names(SelectSeq(parameters, RequiredInPath))
           providedPathParams == Keys(urlVariables.map)
           IsMissing(name) == name \notin Range(providedPathParams)
           missingPathParams == SelectSeq(requiredPathParams, IsMissing)
       IN PathParamLoop(pathParams, urlVariables.map)
          \o (IF Len(extraParams) > 0
              THEN <<<<"Unknown path parameters: ">> \o Join(extraParams, <<", ">>)>>
              ELSE <<>>)
          \o (IF Len(missingPathParams) > 0
              THEN <<<<"Missing required path parameters: ">>
                      \o Join(missingPathParams, <<", ">>)>>
              ELSE <<>>)
  ELSE <<>>

\* A query check that hands the caller's string to the schema as it is.
QueryValidationValue_NoCoercion(param, value) == value

\* A conversion that reads only "true" and "false" as booleans and hands
\* every other string to the schema as it is.
QueryValidationValue_StrictBoolean(param, value) ==
  IF value.t = "string" /\ param.schema.present /\ param.schema.type = "boolean"
  THEN IF ToLowerCase(value.s) \in {<<"t", "r", "u", "e">>, <<"f", "a", "l", "s", "e">>}
       THEN Bool(ToLowerCase(value.s) = <<"t", "r", "u", "e">>)
       ELSE value
  ELSE QueryValidationValue_NoCoercion(param, value)

\* The value the query check hands to the schema: a string is converted
\* according to the declared type.
QueryValidationValue(param, value) ==
  IF value.t = "string" /\ param.schema.present /\ param.schema.type # ""
  THEN CASE param.schema.type \in {"integer", "number"} -> Number(value.s)
         [] param.schema.type = "boolean" ->
              Bool(ToLowerCase(value.s) = <<"t", "r", "u", "e">>)
         [] param.schema.type = "array" ->
              IF param.style = "form" /\ ~param.explode
              THEN Split(value.s) ELSE value
         [] OTHER -> value
  ELSE value

RECURSIVE QueryParamLoop(_, _)
QueryParamLoop(queryParams, map) ==
  IF queryParams = <<>> THEN <<>>
  ELSE LET param == Head(queryParams)
           value == Get(map, param.name)
           validationValue == QueryValidationValue(param, value)
           here ==
             IF param.required
                /\ (value = Undefined \/ value = Null \/ value = Str(<<>>))
             THEN <<<<"Missing required query parameter: ">> \o param.name>>
             ELSE IF value # Undefined /\ param.schema.present
                     /\ ~AjvValidate(param.schema, validationValue)
             THEN <<<<"Invalid query parameter ">> \o param.name \o <<": ">>
                     \o ErrorsText(param.schema, validationValue)>>
             ELSE <<>>
       IN here \o QueryParamLoop(Tail(queryParams), map)

validateUrlQueryParam(urlQueryParams, parameters) ==
  IF urlQueryParams.present
  THEN QueryParamLoop(SelectSeq(parameters, InQuery), urlQueryParams.map)
  ELSE <<>>

\* headers[headerName] || headers[param.name]
Truthy(v) == ~(v = Undefined \/ v = Null \/ v = Str(<<>>) \/ v = Bool(FALSE)
               \/ v = Num(<<"0">>) \/ v = NaN)

RECURSIVE HeaderParamLoop(_, _)
HeaderParamLoop(headerParams, map) ==
  IF headerParams = <<>> THEN <<>>
  ELSE LET param == Head(headerParams)
           headerName == ToLowerCase(param.name)
           value == IF Truthy(Get(map, headerName)) THEN Get(map, headerName)
                    ELSE Get(map, param.name)
           here ==
             IF param.required
                /\ (value = Undefined \/ value = Null \/ value = Str(<<>>))
             THEN <<<<"Missing required header parameter: ">> \o param.name>>
             ELSE IF value # Undefined /\ param.schema.present
                     /\ ~AjvValidate(param.schema, value)
             THEN <<<<"Invalid header parameter ">> \o param.name \o <<": ">>
                     \o ErrorsText(param.schema, value)>>
             ELSE <<>>
       IN here \o HeaderParamLoop(Tail(headerParams), map)

validateUrlHeaders(hdrs, parameters) ==
  IF hdrs.present
  THEN HeaderParamLoop(SelectSeq(parameters, InHeader), hdrs.map)
  ELSE <<>>

\* The declared body is [declared, required, content], content a sequence of
\* [type, schema] with schema [present, required]: an object schema that
\* lists the properties a body must have.  The caller's body is
\* [present, keys].
ContentTypes ==
  <<"application/json", "application/x-www-form-urlencoded", "multipart/form-data">>

HasSchema(content, type) ==
  \E i \in 1..Len(content) : content[i].type = type /\ content[i].schema.present

SchemaOf(content, type) ==
  LET i == CHOOSE j \in 1..Len(content) :
             content[j].type = type /\ content[j].schema.present
  IN content[i].schema

\* The schema of the first content type the operation lists that has one.
FirstSchema_DeclarationOrder(content, types) ==
  LET withSchema ==
        SelectSeq(content, LAMBDA c : c.schema.present /\ c.type \in Range(types))
  IN IF withSchema = <<>> THEN [present |-> FALSE, required |-> {}]
     ELSE Head(withSchema).schema

\* The first content type, in the order of ContentTypes, that has a schema.
RECURSIVE FirstSchema(_, _)
FirstSchema(content, types) ==
  IF types = <<>> THEN [present |-> FALSE, required |-> {}]
  ELSE IF HasSchema(content, Head(types)) THEN SchemaOf(content, Head(types))
  ELSE FirstSchema(content, Tail(types))

BodyConforms(schema, inputBody) == schema.required \subseteq Range(inputBody.keys)

validateUrlRequestBody(inputBody, operationBody) ==
  IF operationBody.declared
  THEN IF operationBody.required /\ (~inputBody.present \/ Len(inputBody.keys) = 0)
       THEN <<<<"Missing required request body">>>>
       ELSE IF inputBody.present /\ Len(inputBody.keys) > 0
       THEN LET schema == FirstSchema(operationBody.content, ContentTypes)
            IN IF schema.present /\ ~BodyConforms(schema, inputBody)
               THEN <<<<"Invalid request body: ",
                        "data must have required property">>>>
               ELSE <<>>
       ELSE <<>>
  ELSE <<>>

\* pathItem[method.toLowerCase()]: an item is a sequence of [method, operation].
HasOperation(item, method) == \E i \in 1..Len(item) : item[i].method = method

OperationOf(item, method) ==
  (item[CHOOSE i \in 1..Len(item) : item[i].method = method]).operation

\* Only the violations of the first location that has any are kept.
CollectErrors_FirstOnly(pathErrors, queryErrors, headerErrors, bodyErrors) ==
  IF pathErrors # <<>> THEN pathErrors
  ELSE IF queryErrors # <<>> THEN queryErrors
  ELSE IF headerErrors # <<>> THEN headerErrors
  ELSE bodyErrors

\* The one errors array the four validators push to, in the order of the calls.
CollectErrors(pathErrors, queryErrors, headerErrors, bodyErrors) ==
  pathErrors \o queryErrors \o headerErrors \o bodyErrors

\* The result is valid whatever the list holds.
ValidationResult_AlwaysValid(errors) == [isValid |-> TRUE, errors |-> errors]

\* return { isValid: errors.length === 0, errors }
ValidationResult(errors) == [isValid |-> Len(errors) = 0, errors |-> errors]

validateRequestParameters(url, doc, method, in) ==
  LET res == validatePath(doc, url)
      lower == LowerPiece(method)
  IN IF ~res.pathValidateRes \/ ~res.found
     THEN [isValid |-> FALSE,
           errors |-> <<<<"API path ">> \o res.apiPath
                        \o <<" is not valid or not found in OpenAPI specification">>>>]
     ELSE IF ~HasOperation(res.specPathItem.item, lower)
     THEN [isValid |-> FALSE,
           errors |-> <<<<"Method ", method, " not found for path ">>
                        \o res.specPath \o <<" in OpenAPI specification">>>>]
     ELSE LET operation == OperationOf(res.specPathItem.item, lower)
              errors ==
                CollectErrors(
                  validateUrlPathParam(in.urlVariables, operation.parameters),
                  validateUrlQueryParam(in.urlQueryParams, operation.parameters),
                  validateUrlHeaders(in.headers, operation.parameters),
                  validateUrlRequestBody(in.requestBody, operation.requestBody))
          IN ValidationResult(errors)

----------------------------------------------------------------------------
(* http-helper.ts: headers *)

\* headers[key] = value on an object kept in insertion order.
RECURSIVE Put(_, _, _)
Put(map, key, value) ==
  IF map = <<>> THEN <<[k |-> key, v |-> value]>>
  ELSE IF Head(map).k = key THEN <<[k |-> key, v |-> value]>> \o Tail(map)
  ELSE <<Head(map)>> \o Put(Tail(map), key, value)

\* process.env.EBAY_CLIENT_TOKEN
USER_TOKEN == <<"token">>

fillDefaultHeaderInfo(hdrs, needSetHostByEnv) ==
  LET host == IF needSetHostByEnv THEN DOMAIN_NAME(USER_ENVIRONMENT)
              ELSE DOMAIN_NAME(PRODUCTION)
      h1 == Put(hdrs, <<"Host">>, Str(<<host>>))
      h2 == Put(h1, <<"User-Agent">>, Str(<<"EBAY-API-MCP-Tool/1.0">>))
      h3 == Put(h2, <<"Authorization">>, Str(<<"Bearer ">> \o USER_TOKEN))
      contentType == IF Truthy(Get(h3, <<"Content-Type">>))
                     THEN Get(h3, <<"Content-Type">>)
                     ELSE Str(<<"application/json">>)
  IN Put(h3, <<"Content-Type">>, contentType)

\* The caller's headers are [present, map], each value an array of strings:
\* value[0] is kept, which is undefined for an empty array.
RECURSIVE FirstValues(_, _)
FirstValues(entries, acc) ==
  IF entries = <<>> THEN acc
  ELSE FirstValues(Tail(entries),
         Put(acc, Head(entries).k,
             IF Len(Head(entries).v) > 0 THEN Str(Head(entries).v[1])
             ELSE Undefined))

buildHeadersFromInput(inputHeaders, needSetHostByEnv) ==
  fillDefaultHeaderInfo(
    IF inputHeaders.present THEN FirstValues(inputHeaders.map, <<>>) ELSE <<>>,
    needSetHostByEnv)

----------------------------------------------------------------------------
(* Values the variables hold while a specification does not use them. *)

NoInput == [url |-> [scheme |-> "", host |-> "", path |-> <<>>, query |-> <<>>]]
EmptyDoc == [basePath |-> <<>>, paths |-> <<>>]
NoValidation == [isValid |-> FALSE, errors |-> <<>>]
NoResult == [isError |-> FALSE, content |-> <<>>]
NoServer == [tools |-> <<>>, connected |-> FALSE]

----------------------------------------------------------------------------
(* SpecUrl: replaceDomainNameByEnvironment applied to a URL, and applied     *)
(* again to its own result, in either configured environment.               *)

Hosts == {"api.ebay.com", "api.sandbox.ebay.com", "example.com"}
Schemes == {"https://", ""}

UrlPaths ==
  { <<>>,
    <<Lit(<<"item">>), Lit(<<"1", "0", "0", "0">>)>>,
    <<Lit(<<"item">>), Var(<<"item_id">>)>>,
    <<Lit(<<"item">>), Enc(<<"item_id">>)>>,
    <<Lit(<<"subscription">>), Var(<<"subscription_id">>), Lit(<<"test">>)>> }

UrlQueries ==
  { <<>>,
    <<"q=phone">>,
    <<"next=", "api.ebay.com">>,
    <<"next=", "api.sandbox.ebay.com">> }

Urls ==
  [scheme : Schemes, host : Hosts, path : UrlPaths, query : UrlQueries]

InitUrl ==
  /\ USER_ENVIRONMENT \in ApiEnvironment
  /\ input \in [url : Urls]
  /\ pc = "call"
  /\ ret = <<>>
  /\ docs = <<>>
  /\ server = NoServer
  /\ specResponse = EmptyDoc
  /\ headers = <<>>
  /\ openApiDoc = EmptyDoc
  /\ reqParamValidation = NoValidation
  /\ requests = <<>>
  /\ result = NoResult

ResolveOnce ==
  /\ pc = "call"
  /\ ret' = <<replaceDomainNameByEnvironment(input.url)>>
  /\ pc' = "once"
  /\ UNCHANGED <<docs, server, USER_ENVIRONMENT, input, specResponse, headers, openApiDoc,
                 reqParamValidation, requests, result>>

ResolveTwice ==
  /\ pc = "once"
  /\ ret' = Append(ret, replaceDomainNameByEnvironment(ret[1]))
  /\ pc' = "twice"
  /\ UNCHANGED <<docs, server, USER_ENVIRONMENT, input, specResponse, headers, openApiDoc,
                 reqParamValidation, requests, result>>

NextUrl == ResolveOnce \/ ResolveTwice

SpecUrl == InitUrl /\ [][NextUrl]_vars

OtherDomain == DOMAIN_NAME(IF USER_ENVIRONMENT = SANDBOX THEN PRODUCTION ELSE SANDBOX)

HasKind(path, kind) == \E i \in 1..Len(path) : path[i].kind = kind

(* C8: replaceDomainNameByEnvironment is idempotent for every input URL and *)
(* every configured environment: a URL already on the configured domain is  *)
(* returned unchanged, and the second application returns what the first    *)
(* returned.                                                                *)
C8_Idempotent ==
  /\ (Len(ret) >= 1 /\ input.url.host = DOMAIN_NAME(USER_ENVIRONMENT))
       => ret[1] = input.url
  /\ Len(ret) = 2 => ret[2] = ret[1]

(* C9 as stated: for every absolute input URL on another domain the result  *)
(* has the configured domain, and scheme, path and query are those of the   *)
(* input, also when the path holds unresolved {var} placeholders.           *)
C9_OnlyHostChanges ==
  (Len(ret) >= 1 /\ UrlParses(input.url)
     /\ input.url.host # DOMAIN_NAME(USER_ENVIRONMENT))
  => /\ ret[1].host = DOMAIN_NAME(USER_ENVIRONMENT)
     /\ ret[1].scheme = input.url.scheme
     /\ ret[1].path = input.url.path
     /\ ret[1].query = input.url.query

(* C9 amended: for every absolute input URL on another domain the result    *)
(* has the configured domain, the scheme and the query of the input, and    *)
(* the path of the input with every literal {name} written %7Bname%7D; for  *)
(* a URL the parser rejects, scheme and path are those of the input, and a  *)
(* host that is another environment's domain becomes the configured domain  *)
(* with the query untouched.                                                *)
C9_HostChangesBracesEncoded ==
  Len(ret) >= 1 =>
    LET url == input.url
        out == ret[1]
    IN /\ (UrlParses(url) /\ url.host # DOMAIN_NAME(USER_ENVIRONMENT))
            => /\ out.host = DOMAIN_NAME(USER_ENVIRONMENT)
               /\ out.scheme = url.scheme
               /\ out.query = url.query
               /\ Len(out.path) = Len(url.path)
               /\ \A i \in 1..Len(url.path) :
                     /\ out.path[i].name = url.path[i].name
                     /\ out.path[i].kind =
                          (IF url.path[i].kind = "lit" THEN "lit" ELSE "enc")
       /\ ~UrlParses(url)
            => /\ out.scheme = url.scheme
               /\ out.path = url.path
               /\ url.host = OtherDomain
                    => (out.host = DOMAIN_NAME(USER_ENVIRONMENT)
                        /\ out.query = url.query)

C9_Witness ==
  /\ pc = "once"
  /\ UrlParses(input.url)
  /\ input.url.host = OtherDomain
  /\ HasKind(input.url.path, "var")
  /\ ret[1].host = DOMAIN_NAME(USER_ENVIRONMENT)
  /\ HasKind(ret[1].path, "enc")
  /\ ~HasKind(ret[1].path, "var")

----------------------------------------------------------------------------
(* SpecRouting: validatePath on a document of up to MaxPaths templates and  *)
(* a request path that instantiates one of them.                            *)

MaxPaths == 3

Templates ==
  { <<Lit(<<"item">>), Var(<<"item_id">>)>>,
    <<Lit(<<"topic">>), Var(<<"topic_id">>)>>,
    <<Lit(<<"subscription">>), Var(<<"subscription_id">>), Lit(<<"test">>)>>,
    <<Lit(<<"config">>)>>,
    <<Lit(<<"test">>)>> }

\* A path item without operations: routing does not look at them.
RoutingItems == {[path |-> t, item |-> <<>>] : t \in Templates}

\* The sequences of distinct templates, in declaration order.
RoutingPaths ==
  UNION {{ps \in [1..n -> RoutingItems] :
            \A i, j \in 1..n : ps[i] = ps[j] => i = j} : n \in 1..MaxPaths}

BasePaths ==
  { <<>>,
    <<Lit(<<"v1">>)>>,
    <<Lit(<<"commerce">>), Lit(<<"notification">>), Lit(<<"v1">>)>> }

\* What a placeholder is replaced by: a value, or nothing (it is kept).
SegValues ==
  { <<>>, <<"1", "0", "0", "0">>, <<"config">>, <<"v1">>, <<"a", "%2F", "b">> }

Instantiate(template, value) ==
  [i \in 1..Len(template) |->
     IF template[i].kind = "var" /\ value # <<>> THEN Lit(value) ELSE template[i]]

HasEscape(path) ==
  \E i \in 1..Len(path) : \E j \in 1..Len(path[i].name) : path[i].name[j] = "%2F"

InitRouting ==
  /\ USER_ENVIRONMENT \in ApiEnvironment
  /\ \E ps \in RoutingPaths, base \in BasePaths, value \in SegValues,
        scheme \in Schemes, prefixed \in BOOLEAN :
        \E k \in 1..Len(ps) :
          input = [doc |-> [basePath |-> base, paths |-> ps],
                   k |-> k,
                   url |-> [scheme |-> scheme,
                            host |-> DOMAIN_NAME(USER_ENVIRONMENT),
                            path |-> (IF prefixed THEN base ELSE <<>>)
                                     \o Instantiate(ps[k].path, value),
                            query |-> <<>>]]
  /\ pc = "call"
  /\ ret = <<>>
  /\ docs = <<>>
  /\ server = NoServer
  /\ specResponse = EmptyDoc
  /\ headers = <<>>
  /\ openApiDoc = EmptyDoc
  /\ reqParamValidation = NoValidation
  /\ requests = <<>>
  /\ result = NoResult

ResolvePath ==
  /\ pc = "call"
  /\ ret' = <<validatePath(input.doc, input.url)>>
  /\ pc' = "returned"
  /\ UNCHANGED <<docs, server, USER_ENVIRONMENT, input, specResponse, headers, openApiDoc,
                 reqParamValidation, requests, result>>

NextRouting == ResolvePath

SpecRouting == InitRouting /\ [][NextRouting]_vars

\* The templates of the document whose pattern matches the decoded path.
Matching(doc, url) ==
  {i \in 1..Len(doc.paths) : RegexTest(doc.paths[i].path, DecodePath(url.path))}

Min(S) == CHOOSE x \in S : \A y \in S : x <= y

GatePasses(doc, url) ==
  doc.basePath = <<>> \/ RegexTest(doc.basePath, DecodePath(url.path))

(* C4 as stated, for documents without base path and segments without       *)
(* percent-escapes: a request path that instantiates template T resolves to *)
(* T.                                                                       *)
C4_ResolvesToT ==
  (Len(ret) = 1 /\ UrlParses(input.url) /\ input.doc.basePath = <<>>
     /\ ~HasEscape(input.url.path))
  => /\ ret[1].found
     /\ ret[1].specPath = PathText(input.doc.paths[input.k].path)

(* C4 amended: validatePath resolves a request path to the first template,  *)
(* in declaration order, whose end-anchored pattern matches the decoded     *)
(* path, and to none when no pattern matches, the URL has no path or the    *)
(* base-path gate rejects the path.  So a path that instantiates T with     *)
(* segments free of percent-escapes, and passes the gate, resolves to T or  *)
(* to a template declared earlier whose pattern matches it, never to a      *)
(* later one; it resolves to T exactly when no earlier pattern matches.     *)
C4_FirstMatchNeverLater ==
  Len(ret) = 1 =>
    LET doc == input.doc
        url == input.url
        r == ret[1]
        m == Matching(doc, url)
    IN IF UrlParses(url) /\ GatePasses(doc, url) /\ m # {}
       THEN /\ r.found
            /\ r.pathValidateRes
            /\ r.specPath = PathText(doc.paths[Min(m)].path)
            /\ r.specPathItem = doc.paths[Min(m)]
            /\ ~HasEscape(url.path) =>
                 /\ Min(m) <= input.k
                 /\ (Min(m) = input.k
                      <=> \A i \in 1..(input.k - 1) : i \notin m)
       ELSE ~r.found /\ ~r.pathValidateRes

C4_Witness ==
  /\ pc = "returned"
  /\ UrlParses(input.url)
  /\ input.doc.basePath = <<>>
  /\ ~HasEscape(input.url.path)
  /\ input.k > 1
  /\ ret[1].found
  /\ ret[1].specPath # PathText(input.doc.paths[input.k].path)
  /\ \E i \in 1..(input.k - 1) :
        ret[1].specPath = PathText(input.doc.paths[i].path)

----------------------------------------------------------------------------
(* SpecValidate: validateRequestParameters on an operation that declares up *)
(* to one parameter per location and possibly a body, and an input whose    *)
(* four parts are each absent, empty or filled.                             *)

Param(name, in, required, schema, style, explode) ==
  [name |-> name, in |-> in, required |-> required, schema |-> schema,
   style |-> style, explode |-> explode]

ItemPath == <<Lit(<<"item">>), Var(<<"item_id">>)>>

PathParamChoices ==
  { <<>>, <<Param(<<"item_id">>, "path", TRUE, Schema("string"), "", FALSE)>> }

QueryParamChoices ==
  { <<>> }
  \cup { <<Param(<<"q">>, "query", required, Schema(type), "", FALSE)>> :
           required \in BOOLEAN, type \in {"integer", "number", "boolean"} }
  \cup { <<Param(<<"q">>, "query", FALSE, ArraySchema("integer"), se[1], se[2])>> :
           se \in {<<"", FALSE>>, <<"form", FALSE>>, <<"form", TRUE>>} }
  \cup { <<Param(<<"q">>, "query", FALSE, ArraySchema("string"), "form", FALSE)>> }

HeaderParamChoices ==
  { <<>>,
    <<Param(<<"X-EBAY-C-MARKETPLACE-ID">>, "header", TRUE, Schema("string"),
            "", FALSE)>> }

NoBody == [declared |-> FALSE, required |-> FALSE, content |-> <<>>]

BodyChoices ==
  { NoBody,
    [declared |-> TRUE, required |-> TRUE,
     content |-> <<[type |-> "application/json",
                    schema |-> [present |-> TRUE, required |-> {<<"name">>}]]>>] }

UrlVariableChoices ==
  { Absent,
    Present(<<>>),
    Present(<<[k |-> <<"item_id">>, v |-> Str(<<"v1", "|", "2">>)]>>),
    Present(<<[k |-> <<"bogus">>, v |-> Str(<<"x">>)]>>) }

QueryStrings ==
  { <<"3">>, <<"3", ".", "5">>, <<"a", "b", "c">>, <<"t", "r", "u", "e">>,
    <<"T", "R", "U", "E">>, <<"f", "a", "l", "s", "e">>,
    <<"3", ",", "4", ",", "5">>, <<>> }

UrlQueryParamChoices ==
  { Absent, Present(<<>>) }
  \cup { Present(<<[k |-> <<"q">>, v |-> Str(text)]>>) : text \in QueryStrings }

HeaderChoices ==
  { Absent,
    Present(<<>>),
    Present(<<[k |-> <<"X-EBAY-C-MARKETPLACE-ID">>, v |-> Str(<<"EBAY_US">>)]>>),
    Present(<<[k |-> <<"x-ebay-c-marketplace-id">>, v |-> Str(<<"EBAY_US">>)]>>) }

RequestBodyChoices ==
  { [present |-> FALSE, keys |-> <<>>],
    [present |-> TRUE, keys |-> <<>>],
    [present |-> TRUE, keys |-> <<<<"name">>>>] }

OperationDoc(path, method, operation) ==
  [basePath |-> <<>>,
   paths |-> <<[path |-> path,
                item |-> <<[method |-> method, operation |-> operation]>>]>>]

InitValidate ==
  /\ USER_ENVIRONMENT \in ApiEnvironment
  /\ \E pp \in PathParamChoices, qp \in QueryParamChoices,
        hp \in HeaderParamChoices, body \in BodyChoices,
        uv \in UrlVariableChoices, uq \in UrlQueryParamChoices,
        hs \in HeaderChoices, rb \in RequestBodyChoices :
        input = [url |-> [scheme |-> "https://",
                          host |-> DOMAIN_NAME(USER_ENVIRONMENT),
                          path |-> ItemPath, query |-> <<>>],
                 doc |-> OperationDoc(ItemPath, "get",
                           [operationId |-> "getItem",
                            parameters |-> pp \o qp \o hp,
                            requestBody |-> body]),
                 method |-> "GET",
                 in |-> [urlVariables |-> uv, urlQueryParams |-> uq,
                         headers |-> hs, requestBody |-> rb]]
  /\ pc = "call"
  /\ ret = <<>>
  /\ docs = <<>>
  /\ server = NoServer
  /\ specResponse = EmptyDoc
  /\ headers = <<>>
  /\ openApiDoc = EmptyDoc
  /\ reqParamValidation = NoValidation
  /\ requests = <<>>
  /\ result = NoResult

Validate ==
  /\ pc = "call"
  /\ ret' = <<validateRequestParameters(input.url, input.doc, input.method,
                                        input.in)>>
  /\ pc' = "returned"
  /\ UNCHANGED <<docs, server, USER_ENVIRONMENT, input, specResponse, headers, openApiDoc,
                 reqParamValidation, requests, result>>

NextValidate == Validate

SpecValidate == InitValidate /\ [][NextValidate]_vars

\* The operation SpecValidate validates against, and its parameters.
TheOperation == input.doc.paths[1].item[1].operation
Declared(in) == {p \in Range(TheOperation.parameters) : p.in = in}

\* The caller's map for a location.
MapOf(in) ==
  CASE in = "path" -> input.in.urlVariables
    [] in = "query" -> input.in.urlQueryParams
    [] in = "header" -> input.in.headers

\* The caller's input does not contain the parameter.
NotSupplied(param) ==
  \/ ~MapOf(param.in).present
  \/ /\ param.name \notin Range(Keys(MapOf(param.in).map))
     /\ param.in = "header"
          => ToLowerCase(param.name) \notin Range(Keys(MapOf(param.in).map))

MissingPrefix(in) ==
  CASE in = "path" -> "Missing required path parameter: "
    [] in = "query" -> "Missing required query parameter: "
    [] in = "header" -> "Missing required header parameter: "

MissingMessage(param) == <<MissingPrefix(param.in)>> \o param.name

HasPrefix(text, prefix) ==
  Len(prefix) <= Len(text) /\ SubSeq(text, 1, Len(prefix)) = prefix

\* The error list reports an invalid value of query parameter name.
ReportsInvalidQuery(errors, name) ==
  \E i \in 1..Len(errors) :
    HasPrefix(errors[i], <<"Invalid query parameter ">> \o name \o <<": ">>)

(* C2: for every parameter the operation declares as required (path, query  *)
(* or header) that the caller's input does not contain, also when the       *)
(* caller gives no map for that location, the result is invalid and its     *)
(* error list holds the missing-parameter message naming that parameter.    *)
C2_MissingRequiredReported ==
  Len(ret) = 1 =>
    \A param \in Range(TheOperation.parameters) :
      (param.required /\ NotSupplied(param))
      => /\ ~ret[1].isValid
         /\ MissingMessage(param) \in Range(ret[1].errors)

\* The operation declares exactly one path parameter, the required item_id,
\* the caller's path variables are a map without it, and the rest of the
\* input is valid.
OmitsItemId ==
  /\ Len(ret) = 1
  /\ Declared("path")
       = {Param(<<"item_id">>, "path", TRUE, Schema("string"), "", FALSE)}
  /\ input.in.urlVariables = Present(<<>>)
  /\ validateUrlQueryParam(input.in.urlQueryParams, TheOperation.parameters) = <<>>
  /\ validateUrlHeaders(input.in.headers, TheOperation.parameters) = <<>>
  /\ validateUrlRequestBody(input.in.requestBody, TheOperation.requestBody) = <<>>

(* C3 as stated: with item_id the one required path parameter and omitted   *)
(* by the caller, the result is invalid with exactly the one message        *)
(* "Missing required path parameter: item_id".                              *)
C3_OneMessage ==
  OmitsItemId
  => ret[1] = [isValid |-> FALSE,
               errors |-> <<<<"Missing required path parameter: ", "item_id">>>>]

(* C3 amended: with item_id the one required path parameter and a path      *)
(* variable map that omits it, the result is invalid with exactly two       *)
(* messages: "Missing required path parameter: item_id" of the loop over    *)
(* the parameters, then "Missing required path parameters: item_id" of the  *)
(* second pass over the required names.                                     *)
C3_TwoMessages ==
  OmitsItemId
  => ret[1] = [isValid |-> FALSE,
               errors |-> << <<"Missing required path parameter: ", "item_id">>,
                             <<"Missing required path parameters: ", "item_id">> >>]

C3_Witness ==
  /\ pc = "returned"
  /\ OmitsItemId
  /\ Len(ret[1].errors) = 2

\* The caller gave the string text for q and the operation declares q with
\* a schema of this type.
QueryCase(type, text) ==
  /\ Len(ret) = 1
  /\ input.in.urlQueryParams = Present(<<[k |-> <<"q">>, v |-> Str(text)]>>)
  /\ \E p \in Declared("query") : p.name = <<"q">> /\ p.schema.type = type

TheQueryParam == CHOOSE p \in Declared("query") : p.name = <<"q">>

(* C6: a string value of a query parameter is converted to the declared     *)
(* primitive type before the schema check: "3" passes an integer and a      *)
(* number schema and "3.5" a number schema, "abc" against an integer schema *)
(* is reported as "Invalid query parameter", and "true" in any letter case  *)
(* against a boolean schema is checked as the boolean true and passes.      *)
C6_QueryCoercion ==
  /\ \A type \in {"integer", "number"} :
       QueryCase(type, <<"3">>) => ~ReportsInvalidQuery(ret[1].errors, <<"q">>)
  /\ QueryCase("number", <<"3", ".", "5">>)
       => ~ReportsInvalidQuery(ret[1].errors, <<"q">>)
  /\ QueryCase("integer", <<"a", "b", "c">>)
       => (~ret[1].isValid /\ ReportsInvalidQuery(ret[1].errors, <<"q">>))
  /\ \A text \in {<<"t", "r", "u", "e">>, <<"T", "R", "U", "E">>} :
       QueryCase("boolean", text)
       => /\ QueryValidationValue(TheQueryParam, Str(text)) = Bool(TRUE)
          /\ ~ReportsInvalidQuery(ret[1].errors, <<"q">>)

C6_Witness ==
  /\ pc = "returned"
  /\ QueryCase("integer", <<"a", "b", "c">>)
  /\ ReportsInvalidQuery(ret[1].errors, <<"q">>)

(* C7: "3,4,5" given for a query parameter declared as array of integer in  *)
(* the default style (form, not exploded, also when the style is left       *)
(* unspecified) is checked as the array [3,4,5] and is not reported.        *)
C7_CommaJoinedArray ==
  (/\ QueryCase("array", <<"3", ",", "4", ",", "5">>)
   /\ TheQueryParam.schema.items = "integer"
   /\ TheQueryParam.style \in {"", "form"}
   /\ ~TheQueryParam.explode)
  => /\ QueryValidationValue(TheQueryParam, Str(<<"3", ",", "4", ",", "5">>))
          = Arr(<<Elem(Num(<<"3">>)), Elem(Num(<<"4">>)), Elem(Num(<<"5">>))>>)
     /\ ~ReportsInvalidQuery(ret[1].errors, <<"q">>)

----------------------------------------------------------------------------
(* openapi-service.ts: the handler of the generic invoke tool.  It suspends *)
(* twice: on the specification lookup and on the request to the API.        *)

\* util.format(RECALL_SPEC_WITH_FIELD_URL, specTitle, operationId)
RECALL_SPEC_WITH_FIELD_URL(specTitle, operationId) ==
  [scheme |-> "https://", host |-> "api.ebay.com",
   path |-> <<Lit(<<"developer">>), Lit(<<"mcp">>), Lit(<<"v1">>),
              Lit(<<"search">>), Lit(<<specTitle>>)>>,
   query |-> <<"operationId=", operationId>>]

NoBodyInput == [present |-> FALSE, keys |-> <<>>]

\* A lookup by title only.
LookupRequest_TitleOnly(in) ==
  [kind |-> "lookup", url |-> RECALL_SPEC_WITH_FIELD_URL(in.specTitle, ""),
   method |-> "GET", headers |-> <<>>, params |-> Absent, data |-> NoBodyInput]

\* The axios.get of parseOpenApiDoc.
LookupRequest(in) ==
  [kind |-> "lookup", url |-> RECALL_SPEC_WITH_FIELD_URL(in.specTitle, in.operationId),
   method |-> "GET", headers |-> <<>>, params |-> Absent, data |-> NoBodyInput]

\* A request whose query parameters are the numbers validation read them as.
ApiRequest_Coerced(in, hdrs, replacedDomainUrl) ==
  LET map == in.urlQueryParams.map
      coerced == [i \in DOMAIN map |->
                    [k |-> map[i].k,
                     v |-> IF map[i].v.t = "string" /\ Number(map[i].v.s) # NaN
                           THEN Number(map[i].v.s) ELSE map[i].v]]
  IN [kind |-> "api", url |-> buildFinalUrl(replacedDomainUrl, in.urlVariables),
      method |-> in.method, headers |-> hdrs,
      params |-> [in.urlQueryParams EXCEPT !.map = coerced],
      data |-> in.requestBody]

\* The axios.request of the handler.
ApiRequest(in, hdrs, replacedDomainUrl) ==
  [kind |-> "api", url |-> buildFinalUrl(replacedDomainUrl, in.urlVariables),
   method |-> in.method, headers |-> hdrs, params |-> in.urlQueryParams,
   data |-> in.requestBody]

\* A parser that answers an unparsable body with a document of its own.
parseOpenApiDoc_DefaultDoc(response) ==
  IF response.kind = "doc" THEN response.doc
  ELSE [basePath |-> <<>>,
        paths |-> <<[path |-> <<Lit(<<"topic">>), Var(<<"topic_id">>)>>,
                     item |-> <<[method |-> "get",
                                 operation |-> [operationId |-> "getTopic",
                                                parameters |-> <<>>,
                                                requestBody |->
                                                  [declared |-> FALSE,
                                                   required |-> FALSE,
                                                   content |-> <<>>]]]>>]>>]

\* parseOpenApiDoc: the body parsed as JSON, else as YAML, else {}.
parseOpenApiDoc(response) ==
  IF response.kind = "doc" THEN response.doc ELSE EmptyDoc

\* formatAxiosError: the payload of the remote service when there is one,
\* else the message of the error.
formatAxiosError(error) ==
  IF error.hasResponseData THEN <<"JSON:">> \o error.text
  ELSE <<"Error in invokeAPI tool: ">> \o error.text

\* A catch block that answers without the error flag.
CaughtResult_NoFlag(error) ==
  [isError |-> FALSE,
   content |-> <<<<"Error in invokeOpenAPI tool: ">> \o formatAxiosError(error)>>]

\* The result of the catch block.
CaughtResult(error) ==
  [isError |-> TRUE,
   content |-> <<<<"Error in invokeOpenAPI tool: ">> \o formatAxiosError(error)>>]

\* A failure result that carries the first violation only.
ValidationFailedResult_FirstOnly(errors) ==
  [isError |-> TRUE,
   content |-> <<<<"Request validation failed:">>,
                 IF errors = <<>> THEN <<>> ELSE errors[1]>>]

\* The result returned when validation fails: errors.join("\n").
ValidationFailedResult(errors) ==
  [isError |-> TRUE,
   content |-> <<<<"Request validation failed:">>, Join(errors, <<"\n">>)>>]

\* The result returned for a response: resp.data, or "No response body".
SuccessResult(data) ==
  [isError |-> FALSE,
   content |-> <<IF data = <<>> THEN <<"No response body">> ELSE data>>]

InvokeStart ==
  /\ pc = "start"
  /\ headers' = buildHeadersFromInput(input.headers, TRUE)
  /\ requests' = Append(requests, LookupRequest(input))
  /\ pc' = "awaitSpec"
  /\ UNCHANGED <<docs, server, USER_ENVIRONMENT, input, specResponse, openApiDoc,
                 reqParamValidation, result, ret>>

\* The lookup fails (network error, non-success status): the catch block.
SpecLookupFails ==
  /\ pc = "awaitSpec"
  /\ specResponse.kind = "fails"
  /\ result' = CaughtResult([hasResponseData |-> FALSE,
                             text |-> <<"Request failed with status code 500">>])
  /\ pc' = "done"
  /\ UNCHANGED <<docs, server, USER_ENVIRONMENT, input, specResponse, headers, openApiDoc,
                 reqParamValidation, requests, ret>>

\* The lookup answers: the document is parsed, the URL is moved to the
\* configured domain and validated; the handler returns the violations or
\* sends the request.
SpecLookupReturns ==
  /\ pc = "awaitSpec"
  /\ specResponse.kind # "fails"
  /\ LET doc == parseOpenApiDoc(specResponse)
         replacedDomainUrl == replaceDomainNameByEnvironment(input.url)
         validation ==
           validateRequestParameters(replacedDomainUrl, doc, input.method,
             [urlVariables |-> input.urlVariables,
              urlQueryParams |-> input.urlQueryParams,
              headers |-> Present(headers),
              requestBody |-> input.requestBody])
     IN /\ openApiDoc' = doc
        /\ reqParamValidation' = validation
        /\ IF ~validation.isValid
           THEN /\ result' = ValidationFailedResult(validation.errors)
                /\ pc' = "done"
                /\ UNCHANGED requests
           ELSE /\ requests' = Append(requests,
                                      ApiRequest(input, headers, replacedDomainUrl))
                /\ pc' = "awaitApi"
                /\ UNCHANGED result
  /\ UNCHANGED <<docs, server, USER_ENVIRONMENT, input, specResponse, headers, ret>>

\* What the marketplace API may answer.
ApiOutcomes ==
  { [ok |-> TRUE, hasResponseData |-> TRUE, text |-> <<"{\"total\": 1}">>],
    [ok |-> TRUE, hasResponseData |-> FALSE, text |-> <<>>],
    [ok |-> FALSE, hasResponseData |-> TRUE, text |-> <<"{\"errors\": []}">>],
    [ok |-> FALSE, hasResponseData |-> FALSE, text |-> <<"socket hang up">>] }

ApiReturns ==
  /\ pc = "awaitApi"
  /\ \E outcome \in ApiOutcomes :
       result' = IF outcome.ok THEN SuccessResult(outcome.text)
                 ELSE CaughtResult(outcome)
  /\ pc' = "done"
  /\ UNCHANGED <<docs, server, USER_ENVIRONMENT, input, specResponse, headers, openApiDoc,
                 reqParamValidation, requests, ret>>

----------------------------------------------------------------------------
(* Spec: one invocation of the generic invoke tool, for a document of the   *)
(* notification API with or without base path.                              *)

NotificationBase == <<Lit(<<"commerce">>), Lit(<<"notification">>), Lit(<<"v1">>)>>

TopicTemplate == <<Lit(<<"topic">>), Var(<<"topic_id">>)>>
TopicPath == <<Lit(<<"topic">>), Lit(<<"MARKETPLACE_ACCOUNT_DELETION">>)>>
SubscriptionTestPath ==
  <<Lit(<<"subscription">>), Var(<<"subscription_id">>), Lit(<<"test">>)>>

\* GET /topic/{topic_id} without declared parameters, and
\* POST /subscription/{subscription_id}/test with its path parameter.
NotificationDoc(base) ==
  [basePath |-> base,
   paths |->
     << [path |-> TopicTemplate,
         item |-> <<[method |-> "get",
                     operation |-> [operationId |-> "getTopic",
                                    parameters |-> <<>>,
                                    requestBody |-> NoBody]]>>],
        [path |-> SubscriptionTestPath,
         item |-> <<[method |-> "post",
                     operation |->
                       [operationId |-> "testSubscription",
                        parameters |->
                          <<Param(<<"subscription_id">>, "path", TRUE,
                                  Schema("string"), "", FALSE)>>,
                        requestBody |-> NoBody]]>>] >>]

SpecResponses ==
  { [kind |-> "doc", doc |-> NotificationDoc(<<>>)],
    [kind |-> "doc", doc |-> NotificationDoc(NotificationBase)],
    [kind |-> "unparsable", doc |-> EmptyDoc],
    [kind |-> "fails", doc |-> EmptyDoc] }

InvokeUrls ==
  [scheme : Schemes,
   host : {"api.ebay.com", "api.sandbox.ebay.com"},
   path : { TopicPath, NotificationBase \o TopicPath,
            SubscriptionTestPath, NotificationBase \o SubscriptionTestPath },
   query : {<<>>}]

InvokeHeaders ==
  { Absent, Present(<<>>),
    Present(<<[k |-> <<"Content-Type">>, v |-> <<<<"text/plain">>>>]>>) }

InvokeUrlVariables ==
  { Absent, Present(<<>>),
    Present(<<[k |-> <<"subscription_id">>, v |-> Str(<<"1", "0", "0", "0">>)]>>),
    Present(<<[k |-> <<"subscription_id">>, v |-> Str(<<"a", "/", "b">>)]>>) }

Init ==
  /\ USER_ENVIRONMENT \in ApiEnvironment
  /\ specResponse \in SpecResponses
  /\ input \in [url : InvokeUrls,
                 method : {"GET", "POST"},
                 headers : InvokeHeaders,
                 urlVariables : InvokeUrlVariables,
                 urlQueryParams : {Absent, Present(<<>>)},
                 requestBody : {NoBodyInput, [present |-> TRUE, keys |-> <<>>]},
                 specTitle : {"Notification API"},
                 operationId : {"getTopic"}]
  /\ pc = "start"
  /\ headers = <<>>
  /\ openApiDoc = EmptyDoc
  /\ reqParamValidation = NoValidation
  /\ requests = <<>>
  /\ result = NoResult
  /\ ret = <<>>
  /\ docs = <<>>
  /\ server = NoServer

Next == InvokeStart \/ SpecLookupFails \/ SpecLookupReturns \/ ApiReturns

Spec == Init /\ [][Next]_vars

IsApi(request) == request.kind = "api"
ApiRequests == SelectSeq(requests, IsApi)

\* validateRequestParameters has returned in this invocation.
ValidationRan == pc \in {"awaitApi", "done"} /\ specResponse.kind # "fails"

\* part occurs in text.
IsInfix(part, text) ==
  \E i \in 0..(Len(text) - Len(part)) : SubSeq(text, i + 1, i + Len(part)) = part

(* C1: in the generic invoke tool, whenever validateRequestParameters       *)
(* returns isValid = false, no request to the marketplace API is sent for   *)
(* the invocation and the result is an error payload (isError) that carries *)
(* every message of the violation list.                                     *)
C1_InvalidNeverSent ==
  (ValidationRan /\ ~reqParamValidation.isValid)
  => /\ ApiRequests = <<>>
     /\ pc = "done"
     /\ result.isError
     /\ Len(result.content) = 2
     /\ \A i \in 1..Len(reqParamValidation.errors) :
          IsInfix(reqParamValidation.errors[i], result.content[2])

C1_Witness ==
  /\ ValidationRan
  /\ ~reqParamValidation.isValid
  /\ Len(reqParamValidation.errors) = 2
  /\ result.isError

(* C5: with a document that declares base path /commerce/notification/v1    *)
(* and GET /topic/{topic_id} without parameters, the request URL            *)
(* <domain>/commerce/notification/v1/topic/MARKETPLACE_ACCOUNT_DELETION     *)
(* with method GET passes validation, and the request then sent has method  *)
(* GET and the URL of the configured domain followed by that path.          *)
C5_BasePathScenario ==
  (/\ ValidationRan
   /\ openApiDoc = NotificationDoc(NotificationBase)
   /\ UrlParses(input.url)
   /\ input.url.path = NotificationBase \o TopicPath
   /\ input.method = "GET"
   /\ input.urlVariables \in {Absent, Present(<<>>)})
  => /\ reqParamValidation.isValid
     /\ Len(ApiRequests) = 1
     /\ ApiRequests[1].method = "GET"
     /\ ApiRequests[1].url =
          [scheme |-> input.url.scheme,
           host |-> DOMAIN_NAME(USER_ENVIRONMENT),
           path |-> NotificationBase \o TopicPath,
           query |-> input.url.query]

(* C10: after validation has passed, the URL that is sent has every {name}  *)
(* placeholder for which urlVariables gives a value replaced by the         *)
(* URL-encoded value, in either environment and whether or not the caller's *)
(* URL was already on the configured domain: no literal or percent-encoded  *)
(* placeholder of a supplied variable remains.                              *)
C10_PlaceholdersReplaced ==
  (ValidationRan /\ reqParamValidation.isValid /\ input.urlVariables.present)
  => /\ Len(ApiRequests) = 1
     /\ Len(ApiRequests[1].url.path) = Len(input.url.path)
     /\ \A e \in Range(input.urlVariables.map) :
          \A i \in 1..Len(input.url.path) :
            input.url.path[i] \in {Var(e.k), Enc(e.k)}
            => ApiRequests[1].url.path[i] = Lit(EncodeURIComponent(String(e.v)))

----------------------------------------------------------------------------
(* http-helper.ts: the request assembler of an auto-exposed operation, and  *)
(* openapi-service.ts: registerOperation, the handler of such a tool.       *)

\* buildBaseUrlFromOpenApi for a document whose server URL is
\* https://api.ebay.com{basePath}: the variable is replaced by its default
\* and the domain by the configured environment's.
buildBaseUrlFromOpenApi(openapi) ==
  replaceDomainNameByEnvironment(
    [scheme |-> "https://", host |-> "api.ebay.com",
     path |-> BasePathOf(openapi), query |-> <<>>])

\* The replacer of resolvePath on one segment: [threw, key, seg].
ResolveSeg(seg, map) ==
  IF seg.kind # "var" THEN [threw |-> FALSE, key |-> <<>>, seg |-> seg]
  ELSE IF Get(map, seg.name) = Undefined
       THEN [threw |-> TRUE, key |-> seg.name, seg |-> seg]
       ELSE [threw |-> FALSE, key |-> <<>>,
             seg |-> Lit(String(Get(map, seg.name)))]

\* The placeholders of the pattern are replaced from left to right; the
\* first one without a value throws.
RECURSIVE ResolveSegs(_, _)
ResolveSegs(segs, map) ==
  IF segs = <<>> THEN [threw |-> FALSE, key |-> <<>>, path |-> <<>>]
  ELSE LET first == ResolveSeg(Head(segs), map)
           rest == ResolveSegs(Tail(segs), map)
       IN IF first.threw THEN [threw |-> TRUE, key |-> first.key, path |-> <<>>]
          ELSE IF rest.threw THEN rest
          ELSE [threw |-> FALSE, key |-> <<>>, path |-> <<first.seg>> \o rest.path]

\* resolvePath: [threw, key, path]; threw stands for
\* throw new Error(`Missing path variable: ${key}`).
resolvePath(pathPattern, pathVariables) ==
  IF ~pathVariables.present
  THEN [threw |-> FALSE, key |-> <<>>, path |-> pathPattern]
  ELSE ResolveSegs(pathPattern, pathVariables.map)

SCHEMA_REQUEST_BODY == <<"requestBody">>

\* operation.parameters.find(p => p.name === key): [found, param].
RECURSIVE FindParam(_, _)
FindParam(parameters, key) ==
  IF parameters = <<>> THEN [found |-> FALSE, in |-> ""]
  ELSE IF Head(parameters).name = key
       THEN [found |-> TRUE, in |-> Head(parameters).in]
       ELSE FindParam(Tail(parameters), key)

\* One round of the forEach of prepareRequestData.
PrepareEntry(acc, entry, operation) ==
  IF entry.k = SCHEMA_REQUEST_BODY THEN [acc EXCEPT !.data = entry.v]
  ELSE LET paramDef == FindParam(operation.parameters, entry.k)
       IN IF ~paramDef.found THEN acc
          ELSE IF paramDef.in = "header"
               THEN [acc EXCEPT !.headers = Put(@, entry.k, Str(String(entry.v)))]
          ELSE IF paramDef.in = "query"
               THEN [acc EXCEPT !.params = Put(@, entry.k, entry.v)]
          ELSE IF paramDef.in = "path"
               THEN [acc EXCEPT !.pathParams = Put(@, entry.k, Str(String(entry.v)))]
          ELSE acc

RECURSIVE PrepareLoop(_, _, _)
PrepareLoop(acc, entries, operation) ==
  IF entries = <<>> THEN acc
  ELSE PrepareLoop(PrepareEntry(acc, Head(entries), operation),
                   Tail(entries), operation)

\* prepareRequestData with the path resolved whatever the number of
\* path-location values.
prepareRequestData_AlwaysResolves(in, operation, path) ==
  LET prop == IF in.properties.present THEN in.properties.map ELSE <<>>
      acc == PrepareLoop([headers |-> <<>>, params |-> <<>>, data |-> Undefined,
                          pathParams |-> <<>>], prop, operation)
      resolved == resolvePath(path, Present(acc.pathParams))
  IN [threw |-> resolved.threw, key |-> resolved.key,
      resolvedPath |-> resolved.path,
      headers |-> fillDefaultHeaderInfo(acc.headers, FALSE),
      params |-> acc.params, data |-> acc.data]

\* prepareRequestData: [threw, key, resolvedPath, headers, params, data].
prepareRequestData(in, operation, path) ==
  LET prop == IF in.properties.present THEN in.properties.map ELSE <<>>
      acc == PrepareLoop([headers |-> <<>>, params |-> <<>>, data |-> Undefined,
                          pathParams |-> <<>>], prop, operation)
      resolved == IF Len(acc.pathParams) > 0
                  THEN resolvePath(path, Present(acc.pathParams))
                  ELSE [threw |-> FALSE, key |-> <<>>, path |-> path]
  IN [threw |-> resolved.threw, key |-> resolved.key,
      resolvedPath |-> resolved.path,
      headers |-> fillDefaultHeaderInfo(acc.headers, FALSE),
      params |-> acc.params, data |-> acc.data]

\* What registerOperation keeps for a tool.
Tool(baseUrl, path, method, operation) ==
  [name |-> operation.operationId, baseUrl |-> baseUrl, path |-> path,
   method |-> method, operation |-> operation]

\* A handler that sends the request of an auto-exposed tool elsewhere.
OperationRequest_NotSent(tool, prep) ==
  [kind |-> "none",
   url |-> [tool.baseUrl EXCEPT !.path = @ \o prep.resolvedPath],
   method |-> tool.method, headers |-> prep.headers,
   params |-> Present(prep.params), data |-> prep.data]

\* The axios.request of an auto-exposed tool: url = baseUrl + resolvedPath.
OperationRequest(tool, prep) ==
  [kind |-> "api",
   url |-> [tool.baseUrl EXCEPT !.path = @ \o prep.resolvedPath],
   method |-> tool.method, headers |-> prep.headers,
   params |-> Present(prep.params), data |-> prep.data]

\* The result for a response: resp.data when it is a string.
OperationResult(data) == [isError |-> FALSE, content |-> <<data>>]

\* The handler up to its await: the request is assembled and sent, or the
\* assembler throws and the catch block answers.
OperationStart ==
  /\ pc = "opStart"
  /\ LET tool == server.tools[input.tool]
         prep == prepareRequestData(input, tool.operation, tool.path)
     IN IF prep.threw
        THEN /\ result' = CaughtResult([hasResponseData |-> FALSE,
                            text |-> <<"Missing path variable: ">> \o prep.key])
             /\ pc' = "done"
             /\ UNCHANGED requests
        ELSE /\ requests' = Append(requests, OperationRequest(tool, prep))
             /\ pc' = "opAwaitApi"
             /\ UNCHANGED result
  /\ UNCHANGED <<docs, server, USER_ENVIRONMENT, input, specResponse, headers,
                 openApiDoc, reqParamValidation, ret>>

OperationApiReturns ==
  /\ pc = "opAwaitApi"
  /\ \E outcome \in ApiOutcomes :
       result' = IF outcome.ok THEN OperationResult(outcome.text)
                 ELSE CaughtResult(outcome)
  /\ pc' = "done"
  /\ UNCHANGED <<docs, server, USER_ENVIRONMENT, input, specResponse, headers,
                 openApiDoc, reqParamValidation, requests, ret>>

----------------------------------------------------------------------------
(* openapi-service.ts: registration of the auto-exposed tools.  A path item *)
(* is a sequence of [method, operation] in key order; an operation without  *)
(* identifier has operationId "".                                           *)

SUPPORTED_CALLING_METHODS(env) ==
  IF env = SANDBOX
  THEN {"get", "put", "post", "delete", "options", "head", "patch", "trace"}
  ELSE {"get"}

\* registerPathOperations with every method of the document registered.
RECURSIVE registerPathOperations_AnyMethod(_, _, _, _)
registerPathOperations_AnyMethod(tools, baseUrl, path, pathItem) ==
  IF pathItem = <<>> THEN tools
  ELSE LET e == Head(pathItem)
           next == IF e.operation.operationId # ""
                   THEN Append(tools, Tool(baseUrl, path, e.method, e.operation))
                   ELSE tools
       IN registerPathOperations_AnyMethod(next, baseUrl, path, Tail(pathItem))

\* registerPathOperations: the tools after the supported methods of one
\* path item have been registered.
RECURSIVE registerPathOperations(_, _, _, _)
registerPathOperations(tools, baseUrl, path, pathItem) ==
  IF pathItem = <<>> THEN tools
  ELSE LET e == Head(pathItem)
           next == IF /\ e.method \in SUPPORTED_CALLING_METHODS(USER_ENVIRONMENT)
                      /\ e.operation.operationId # ""
                   THEN Append(tools, Tool(baseUrl, path, e.method, e.operation))
                   ELSE tools
       IN registerPathOperations(next, baseUrl, path, Tail(pathItem))

RECURSIVE RegisterPaths(_, _, _)
RegisterPaths(tools, baseUrl, paths) ==
  IF paths = <<>> THEN tools
  ELSE RegisterPaths(
         registerPathOperations(tools, baseUrl, Head(paths).path, Head(paths).item),
         baseUrl, Tail(paths))

registerOpenApiDynamicTools(tools, openapi) ==
  RegisterPaths(tools, buildBaseUrlFromOpenApi(openapi), openapi.paths)

----------------------------------------------------------------------------
(* SpecOperation: one invocation of an auto-exposed tool of a document with *)
(* one and two placeholders in its templates.                               *)

BidPath == <<Lit(<<"item">>), Var(<<"item_id">>), Lit(<<"bid">>), Var(<<"bid_id">>)>>

Operation(operationId, parameters) ==
  [operationId |-> operationId, parameters |-> parameters, requestBody |-> NoBody]

ItemIdParam == Param(<<"item_id">>, "path", TRUE, Schema("string"), "", FALSE)
BidIdParam == Param(<<"bid_id">>, "path", TRUE, Schema("integer"), "", FALSE)
QParam == Param(<<"q">>, "query", FALSE, Schema("string"), "", FALSE)
MarketplaceParam ==
  Param(<<"X-EBAY-C-MARKETPLACE-ID">>, "header", FALSE, Schema("string"), "", FALSE)

\* GET and DELETE /item/{item_id}, POST and GET /item/{item_id}/bid/{bid_id},
\* and /item with an operation without identifier.
ItemDoc(base) ==
  [basePath |-> base,
   paths |->
     << [path |-> ItemPath,
         item |-> <<[method |-> "get",
                     operation |-> Operation("getItem",
                        <<ItemIdParam, QParam, MarketplaceParam>>)],
                    [method |-> "delete",
                     operation |-> Operation("deleteItem", <<ItemIdParam>>)]>>],
        [path |-> BidPath,
         item |-> <<[method |-> "post",
                     operation |-> Operation("placeBid",
                        <<ItemIdParam, BidIdParam>>)],
                    [method |-> "get",
                     operation |-> Operation("getBid",
                        <<ItemIdParam, BidIdParam, QParam>>)]>>],
        [path |-> <<Lit(<<"item">>)>>,
         item |-> <<[method |-> "get", operation |-> Operation("", <<QParam>>)],
                    [method |-> "x-internal", operation |-> Operation("hidden", <<>>)]>>] >>]

\* The entries a caller may give, in this order.
PropertyEntries ==
  << [k |-> <<"item_id">>, v |-> Str(<<"1", "0", "0", "0">>)],
     [k |-> <<"bid_id">>, v |-> Num(<<"7">>)],
     [k |-> <<"q">>, v |-> Str(<<"phone">>)],
     [k |-> <<"X-EBAY-C-MARKETPLACE-ID">>, v |-> Str(<<"EBAY_US">>)],
     [k |-> SCHEMA_REQUEST_BODY, v |-> Str(<<"{}">>)] >>

Among(entries, chosen) ==
  LET In(e) == e \in chosen IN SelectSeq(entries, In)

PropertyChoices ==
  {Absent} \cup {Present(Among(PropertyEntries, chosen)) :
                   chosen \in SUBSET Range(PropertyEntries)}

InitOperation ==
  /\ USER_ENVIRONMENT \in ApiEnvironment
  /\ \E base \in {<<>>, <<Lit(<<"buy">>), Lit(<<"v1">>)>>} :
       server = [tools |-> registerOpenApiDynamicTools(<<>>, ItemDoc(base)),
                 connected |-> TRUE]
  /\ input \in [tool : 1..Len(server.tools), properties : PropertyChoices]
  /\ pc = "opStart"
  /\ specResponse = [kind |-> "fails", doc |-> EmptyDoc]
  /\ headers = <<>>
  /\ openApiDoc = EmptyDoc
  /\ reqParamValidation = NoValidation
  /\ requests = <<>>
  /\ result = NoResult
  /\ ret = <<>>
  /\ docs = <<>>

NextOperation == OperationStart \/ OperationApiReturns

SpecOperation == InitOperation /\ [][NextOperation]_vars

TheTool == server.tools[input.tool]

\* The names the caller gave a value for among the declared path parameters.
SuppliedPathNames ==
  IF ~input.properties.present THEN {}
  ELSE {e.k : e \in {x \in Range(input.properties.map) :
                        \E p \in Range(TheTool.operation.parameters) :
                          p.name = x.k /\ p.in = "path"}}

\* The placeholders of the tool's template without a value.
MissingPathNames ==
  {seg.name : seg \in {x \in Range(TheTool.path) : x.kind = "var"}}
    \ SuppliedPathNames

(* C11: in the request assembler of an auto-exposed operation, whenever the *)
(* path template has a placeholder for which the caller gave no value,      *)
(* assembly fails with an error naming a missing path variable and no       *)
(* request is sent, also when the caller gives no path-location value.      *)
C11_MissingVariableFails ==
  (pc # "opStart" /\ MissingPathNames # {})
  => /\ requests = <<>>
     /\ pc = "done"
     /\ result.isError
     /\ \E name \in MissingPathNames : IsInfix(name, result.content[1])

----------------------------------------------------------------------------
(* SpecHeaders: buildHeadersFromInput on caller header maps of up to two    *)
(* entries, with both values of needSetHostByEnv.                           *)

HeaderNames ==
  { <<"Host">>, <<"host">>, <<"HOST">>, <<"Authorization">>, <<"authorization">>,
    <<"User-Agent">>, <<"Content-Type">>, <<"X-Trace">> }

HeaderValues == { <<>>, <<<<"caller">>>>, <<<<"caller">>, <<"second">>>> }

HeaderEntries == [k : HeaderNames, v : HeaderValues]

InputHeaderChoices ==
  {Absent, Present(<<>>)}
    \cup {Present(<<e>>) : e \in HeaderEntries}
    \cup {Present(<<p[1], p[2]>>) :
            p \in {q \in HeaderEntries \X HeaderEntries : q[1].k # q[2].k}}

InitHeaders ==
  /\ USER_ENVIRONMENT \in ApiEnvironment
  /\ input \in [headers : InputHeaderChoices, needSetHostByEnv : BOOLEAN]
  /\ pc = "build"
  /\ specResponse = [kind |-> "fails", doc |-> EmptyDoc]
  /\ headers = <<>>
  /\ openApiDoc = EmptyDoc
  /\ reqParamValidation = NoValidation
  /\ requests = <<>>
  /\ result = NoResult
  /\ ret = <<>>
  /\ docs = <<>>
  /\ server = NoServer

BuildHeaders ==
  /\ pc = "build"
  /\ headers' = buildHeadersFromInput(input.headers, input.needSetHostByEnv)
  /\ pc' = "done"
  /\ UNCHANGED <<docs, server, USER_ENVIRONMENT, input, specResponse, openApiDoc,
                 reqParamValidation, requests, result, ret>>

NextHeaders == BuildHeaders

SpecHeaders == InitHeaders /\ [][NextHeaders]_vars

IsHostName(k) == ToLowerCase(k) = <<"host">>
IsAuthorizationName(k) == ToLowerCase(k) = <<"authorization">>

(* C12: in every header map built by buildHeadersFromInput, every entry     *)
(* for the host header carries the mode's domain and every entry for the    *)
(* authorization header carries "Bearer " + token, whatever the caller      *)
(* supplied and under any letter case of the name: no caller entry for      *)
(* these two headers survives.                                              *)
C12_SystemHeadersOnly ==
  pc = "done"
  => \A e \in Range(headers) :
       /\ IsHostName(e.k) => e.v = Str(<<DOMAIN_NAME(USER_ENVIRONMENT)>>)
       /\ IsAuthorizationName(e.k) => e.v = Str(<<"Bearer ">> \o USER_TOKEN)

(* C13: for every header other than host and authorization that the caller  *)
(* supplied with a value (e.g. User-Agent, Content-Type), the built map     *)
(* keeps the caller's value.                                                *)
C13_CallerHeadersKept ==
  (pc = "done" /\ input.headers.present)
  => \A e \in Range(input.headers.map) :
       (~IsHostName(e.k) /\ ~IsAuthorizationName(e.k) /\ Len(e.v) > 0)
       => Get(headers, e.k) = Str(e.v[1])

----------------------------------------------------------------------------
(* openapi-service.ts: registerQueryApiTool, the handler of the query tool, *)
(* and SpecTools: one invocation of any of the three kinds of tool.         *)

\* util.format(RECALL_SPEC_BY_PROMPT_URL, encodeURIComponent(prompt))
RECALL_SPEC_BY_PROMPT_URL(prompt) ==
  [scheme |-> "https://", host |-> "api.ebay.com",
   path |-> <<Lit(<<"developer">>), Lit(<<"mcp">>), Lit(<<"v1">>), Lit(<<"search">>)>>,
   query |-> <<"query=">> \o EncodeURIComponent(prompt)]

\* The axios.get of the query tool.
QueryRequest(in) ==
  [kind |-> "search", url |-> RECALL_SPEC_BY_PROMPT_URL(in.prompt),
   method |-> "GET", headers |-> buildHeadersFromInput(Absent, FALSE),
   params |-> Absent, data |-> NoBodyInput]

\* error.message of a rejected request.
ErrorMessage(error) ==
  IF error.hasResponseData THEN <<"Request failed with status code 500">>
  ELSE error.text

\* The result of the catch block of the query tool.
QueryCaughtResult(error) ==
  [isError |-> TRUE, content |-> <<<<"Error: ">> \o ErrorMessage(error)>>]

QueryStart ==
  /\ pc = "queryStart"
  /\ requests' = Append(requests, QueryRequest(input))
  /\ pc' = "queryAwait"
  /\ UNCHANGED <<docs, server, USER_ENVIRONMENT, input, specResponse, headers,
                 openApiDoc, reqParamValidation, result, ret>>

QueryReturns ==
  /\ pc = "queryAwait"
  /\ \E outcome \in ApiOutcomes :
       result' = IF outcome.ok THEN SuccessResult(outcome.text)
                 ELSE QueryCaughtResult(outcome)
  /\ pc' = "done"
  /\ UNCHANGED <<docs, server, USER_ENVIRONMENT, input, specResponse, headers,
                 openApiDoc, reqParamValidation, requests, ret>>

Prompts ==
  { <<"o", "r", "d", "e", "r">>, <<"a", " ", "b">>, <<"a", "/", "b">>, <<>> }

InitQuery ==
  /\ USER_ENVIRONMENT \in ApiEnvironment
  /\ input \in [prompt : Prompts]
  /\ pc = "queryStart"
  /\ specResponse = [kind |-> "fails", doc |-> EmptyDoc]
  /\ headers = <<>>
  /\ openApiDoc = EmptyDoc
  /\ reqParamValidation = NoValidation
  /\ requests = <<>>
  /\ result = NoResult
  /\ ret = <<>>
  /\ docs = <<>>
  /\ server = NoServer

NextQuery == QueryStart \/ QueryReturns

InitTools == Init \/ InitOperation \/ InitQuery

NextTools == Next \/ NextOperation \/ NextQuery

SpecTools == InitTools /\ [][NextTools]_vars

\* The tool that is running, told by the shape of its input.
ToolKind ==
  IF "tool" \in DOMAIN input THEN "operation"
  ELSE IF "prompt" \in DOMAIN input THEN "query"
  ELSE "invoke"

\* The texts a handler answers with when the remote service answered.
SuccessTexts ==
  {o.text : o \in {x \in ApiOutcomes : x.ok}} \cup {<<"No response body">>}

ErrorPrefixes ==
  { <<"Error in invokeOpenAPI tool: ">>, <<"Error: ">>,
    <<"Request validation failed:">> }

\* The assembler of the running auto-exposed tool threw.
AssemblyThrew ==
  /\ ToolKind = "operation"
  /\ prepareRequestData(input, TheTool.operation, TheTool.path).threw

(* C14: every invocation of an exposed operation (auto-exposed tool, query  *)
(* tool, generic invoke tool) ends in exactly one of two outcomes: a text   *)
(* payload without error flag that carries the remote answer, or an error   *)
(* payload with a message and isError = true.  A failure of the lookup,     *)
(* of validation, of assembly or of the HTTP request always gives the error *)
(* payload; the handler is never anywhere but at one of its awaits or at    *)
(* its return.                                                              *)
C14_TwoOutcomes ==
  /\ pc \in {"start", "awaitSpec", "awaitApi", "opStart", "opAwaitApi",
             "queryStart", "queryAwait", "done"}
  /\ pc = "done"
     => /\ Len(result.content) >= 1
        /\ result.isError
           => /\ \E prefix \in ErrorPrefixes : HasPrefix(result.content[1], prefix)
              /\ Len(result.content[Len(result.content)]) >= 1
        /\ ~result.isError
           => /\ Len(result.content) = 1
              /\ result.content[1] \in SuccessTexts
              /\ Len(requests) >= 1
        /\ (ToolKind = "invoke" /\ specResponse.kind = "fails") => result.isError
        /\ (ValidationRan /\ ~reqParamValidation.isValid) => result.isError
        /\ AssemblyThrew => result.isError

\* An invocation has ended with a caught failure of the HTTP request.
C14_Witness ==
  /\ pc = "done"
  /\ result.isError
  /\ ToolKind = "operation"
  /\ Len(requests) = 1

(* C15: within one invocation the request to the marketplace API is issued  *)
(* at most once, also after a network failure or a non-success status, and  *)
(* exactly once when assembly (auto-exposed tool) or the lookup and         *)
(* validation (generic invoke tool) have succeeded.                         *)
C15_AtMostOneRequest ==
  /\ Len(ApiRequests) <= 1
  /\ (ValidationRan /\ reqParamValidation.isValid) => Len(ApiRequests) = 1
  /\ (ToolKind = "operation" /\ pc # "opStart" /\ ~AssemblyThrew)
     => Len(ApiRequests) = 1
  /\ (ToolKind = "operation" /\ AssemblyThrew) => ApiRequests = <<>>
  /\ (ToolKind = "invoke" /\ pc = "done" /\ ~ValidationRan) => ApiRequests = <<>>
  /\ ToolKind = "query" => ApiRequests = <<>>

\* The request failed and the invocation ended with the one request.
C15_Witness ==
  /\ pc = "done"
  /\ result.isError
  /\ Len(ApiRequests) = 1
  /\ ToolKind = "invoke"

(* C16: in the generic invoke tool the steps of one invocation occur in the *)
(* order lookup by title and operation id, validation against the fetched   *)
(* document, API request: no validation result exists before the lookup has *)
(* been sent and has returned, and an API request is only ever the second   *)
(* request, sent after validation has returned isValid.                     *)
C16_LookupValidateRequest ==
  /\ requests # <<>>
     => /\ requests[1].kind = "lookup"
        /\ requests[1].url =
             RECALL_SPEC_WITH_FIELD_URL(input.specTitle, input.operationId)
  /\ pc \in {"start", "awaitSpec"}
     => reqParamValidation = NoValidation /\ ApiRequests = <<>>
  /\ reqParamValidation # NoValidation
     => /\ Len(requests) >= 1
        /\ specResponse.kind # "fails"
        /\ specResponse.kind = "doc" => openApiDoc = specResponse.doc
  /\ ApiRequests # <<>>
     => /\ reqParamValidation.isValid
        /\ Len(requests) = 2
        /\ requests[2].kind = "api"

C16_Witness ==
  /\ pc = "awaitApi"
  /\ Len(requests) = 2
  /\ reqParamValidation.isValid

(* C17: when the lookup's body is neither JSON nor YAML, parseOpenApiDoc    *)
(* returns the empty document, and the generic invoke tool then ends with a *)
(* validation failure (API path not found) and sends no API request.        *)
C17_UnparsableDocument ==
  (specResponse.kind = "unparsable" /\ pc \notin {"start", "awaitSpec"})
  => /\ openApiDoc = EmptyDoc
     /\ pc = "done"
     /\ ~reqParamValidation.isValid
     /\ result.isError
     /\ result.content[1] = <<"Request validation failed:">>
     /\ HasPrefix(result.content[2], <<"API path ">>)
     /\ ApiRequests = <<>>

C17_Witness ==
  /\ specResponse.kind = "unparsable"
  /\ pc = "done"
  /\ UrlParses(input.url)
  /\ result.isError

----------------------------------------------------------------------------
(* index.ts: main, and the startup steps it runs: the check of the          *)
(* environment variables, the loading of the configured documents, the      *)
(* registration of the tools and the connection of the transport.           *)

\* findApiEnvironmentByValue of constants.ts: SANDBOX when nothing matches.
findApiEnvironmentByValue(value) ==
  IF ToLowerCase(value) = <<SANDBOX>> THEN SANDBOX
  ELSE IF ToLowerCase(value) = <<PRODUCTION>> THEN PRODUCTION
  ELSE SANDBOX

\* process.env.EBAY_API_ENV || ""
EnvText(v) == IF Truthy(v) THEN v.s ELSE <<>>

REQUIRED_ENV_VARS == <<"EBAY_CLIENT_TOKEN", "EBAY_API_ENV">>

\* A check that finds nothing missing.
MissingVars_None(env) == <<>>

\* REQUIRED_ENV_VARS.filter(varName => !process.env[varName])
MissingVars(env) ==
  LET Missing(varName) == ~Truthy(env[varName])
  IN SelectSeq(REQUIRED_ENV_VARS, Missing)

\* The configured locations: the lines of the file named by
\* EBAY_API_DOC_URL_FILE when it is set and exists.
ConfiguredUrls(in) ==
  IF Truthy(in.env.EBAY_API_DOC_URL_FILE) /\ in.fileExists
  THEN in.fileLines ELSE <<>>

\* A loader that gives up what it has on a failure.
LoadOne_ForgetsOnFailure(loaded, specPath) ==
  IF specPath.loads THEN Append(loaded, specPath.doc) ELSE <<>>

\* One round of the loop of getOpenApiDocumentsFromConfigFile: the document
\* is pushed, or the failure is caught and logged.
LoadOne(loaded, specPath) ==
  IF specPath.loads THEN Append(loaded, specPath.doc) ELSE loaded

CustomTool(name) == [name |-> name, custom |-> TRUE]

\* registerCustomTools: the query tool unless a document file is
\* configured, and the invoke tool.
registerCustomTools(tools, env) ==
  (IF Truthy(env.EBAY_API_DOC_URL_FILE) THEN tools
   ELSE Append(tools, CustomTool("query_ebay_api")))
    \o <<CustomTool("call_ebay_api")>>

RECURSIVE RegisterDocs(_, _)
RegisterDocs(tools, openapis) ==
  IF openapis = <<>> THEN tools
  ELSE RegisterDocs(registerOpenApiDynamicTools(tools, Head(openapis)),
                    Tail(openapis))

\* registerOpenApiTools, after the documents have been loaded.
registerOpenApiTools(openapis, env) ==
  registerCustomTools(RegisterDocs(<<>>, openapis), env)

MaxServed == 1

CheckEnvironmentVariables ==
  /\ pc = "main"
  /\ pc' = IF Len(MissingVars(input.env)) > 0 THEN "exited" ELSE "loading"
  /\ UNCHANGED <<docs, server, USER_ENVIRONMENT, input, specResponse, headers,
                 openApiDoc, reqParamValidation, requests, result, ret>>

\* ret logs the outcome of every location tried so far.
LoadDocument ==
  /\ pc = "loading"
  /\ Len(ret) < Len(ConfiguredUrls(input))
  /\ LET specPath == ConfiguredUrls(input)[Len(ret) + 1]
     IN /\ docs' = LoadOne(docs, specPath)
        /\ ret' = Append(ret, IF specPath.loads THEN "loaded" ELSE "failed")
  /\ UNCHANGED <<server, USER_ENVIRONMENT, pc, input, specResponse, headers,
                 openApiDoc, reqParamValidation, requests, result>>

RegisterTools ==
  /\ pc = "loading"
  /\ Len(ret) = Len(ConfiguredUrls(input))
  /\ server' = [server EXCEPT !.tools = registerOpenApiTools(docs, input.env)]
  /\ pc' = "connecting"
  /\ UNCHANGED <<docs, USER_ENVIRONMENT, input, specResponse, headers,
                 openApiDoc, reqParamValidation, requests, result, ret>>

Connect ==
  /\ pc = "connecting"
  /\ server' = [server EXCEPT !.connected = TRUE]
  /\ pc' = "serving"
  /\ UNCHANGED <<docs, USER_ENVIRONMENT, input, specResponse, headers,
                 openApiDoc, reqParamValidation, requests, result, ret>>

\* A client calls one of the registered tools.
Serve ==
  /\ pc = "serving"
  /\ server.connected
  /\ Len(requests) < MaxServed
  /\ \E i \in 1..Len(server.tools) :
       requests' = Append(requests, [kind |-> "invocation",
                                     tool |-> server.tools[i].name])
  /\ UNCHANGED <<docs, server, USER_ENVIRONMENT, pc, input, specResponse,
                 headers, openApiDoc, reqParamValidation, result, ret>>

\* The values an environment variable may have: unset, empty, set.
TokenValues == {Undefined, Str(<<>>), Str(<<"token">>)}
ApiEnvValues ==
  {Undefined, Str(<<"sandbox">>), Str(<<"production">>), Str(<<"PRODUCTION">>),
   Str(<<"staging">>)}
DocFileValues == {Undefined, Str(<<"apis.txt">>)}

\* What a configured location gives when dereferenced.
Locations ==
  { [loads |-> FALSE, doc |-> EmptyDoc, at |-> "missing.yaml"],
    [loads |-> FALSE, doc |-> EmptyDoc, at |-> "broken.json"],
    [loads |-> TRUE, doc |-> ItemDoc(<<Lit(<<"buy">>), Lit(<<"v1">>)>>), at |-> "item.json"],
    [loads |-> TRUE, doc |-> NotificationDoc(NotificationBase), at |-> "notification.json"] }

\* The files of up to three different locations.
FileLineChoices ==
  {<<>>} \cup {<<a>> : a \in Locations}
    \cup {<<p[1], p[2]>> : p \in {q \in Locations \X Locations : q[1] # q[2]}}
    \cup {<<p[1], p[2], p[3]>> :
            p \in {q \in Locations \X Locations \X Locations :
                     q[1] # q[2] /\ q[1] # q[3] /\ q[2] # q[3]}}

InitStartup ==
  /\ input \in [env : [EBAY_CLIENT_TOKEN : TokenValues,
                        EBAY_API_ENV : ApiEnvValues,
                        EBAY_API_DOC_URL_FILE : DocFileValues],
                 fileExists : BOOLEAN,
                 fileLines : FileLineChoices]
  /\ Truthy(input.env.EBAY_API_DOC_URL_FILE) \/ (~input.fileExists /\ input.fileLines = <<>>)
  /\ input.fileExists \/ input.fileLines = <<>>
  /\ USER_ENVIRONMENT = findApiEnvironmentByValue(EnvText(input.env.EBAY_API_ENV))
  /\ pc = "main"
  /\ specResponse = [kind |-> "fails", doc |-> EmptyDoc]
  /\ headers = <<>>
  /\ openApiDoc = EmptyDoc
  /\ reqParamValidation = NoValidation
  /\ requests = <<>>
  /\ result = NoResult
  /\ ret = <<>>
  /\ docs = <<>>
  /\ server = NoServer

NextStartup ==
  CheckEnvironmentVariables \/ LoadDocument \/ RegisterTools \/ Connect \/ Serve

SpecStartup == InitStartup /\ [][NextStartup]_vars

IsAutoTool(t) == "method" \in DOMAIN t
AutoTools == SelectSeq(server.tools, IsAutoTool)

\* The (path, method) pairs of the loaded documents.
PairsOf(pe) ==
  {[path |-> pe.path, method |-> me.method, operation |-> me.operation] :
     me \in Range(pe.item)}

LoadedPairs ==
  UNION {PairsOf(pe) : pe \in UNION {Range(d.paths) : d \in Range(docs)}}

Exposed(pr) ==
  \E t \in Range(AutoTools) :
    /\ t.path = pr.path
    /\ t.method = pr.method
    /\ t.operation = pr.operation
    /\ t.name = pr.operation.operationId

(* C18: at registration a tool is exposed for a (path, method) pair of a    *)
(* loaded document if and only if the method is permitted for the           *)
(* configured environment (production: get only; sandbox: get, put, post,   *)
(* delete, options, head, patch, trace) and the operation has an operation  *)
(* identifier; in production no tool is registered for a non-GET operation. *)
C18_ExposedIffPermitted ==
  pc \in {"connecting", "serving"}
  => /\ \A pr \in LoadedPairs :
          Exposed(pr)
          <=> /\ pr.operation.operationId # ""
              /\ IF USER_ENVIRONMENT = PRODUCTION THEN pr.method = "get"
                 ELSE pr.method \in {"get", "put", "post", "delete", "options",
                                      "head", "patch", "trace"}
     /\ \A t \in Range(AutoTools) :
          /\ \E pr \in LoadedPairs : pr.path = t.path /\ pr.method = t.method
          /\ USER_ENVIRONMENT = PRODUCTION => t.method = "get"

\* Production, with a document that has non-GET operations, registered.
C18_Witness ==
  /\ pc = "serving"
  /\ USER_ENVIRONMENT = PRODUCTION
  /\ Len(docs) = 2
  /\ Len(AutoTools) >= 2

Loads(specPath) == specPath.loads

(* C19: getOpenApiDocumentsFromConfigFile tries every configured location:  *)
(* a failing one is skipped and the loop goes on, so the list holds exactly  *)
(* one document per location that loaded, in the order of the lines,        *)
(* whatever the position and number of the failing locations.               *)
C19_OneDocumentPerLoadedLocation ==
  /\ pc = "loading"
     => LET tried == SelectSeq(SubSeq(ConfiguredUrls(input), 1, Len(ret)), Loads)
        IN docs = [i \in 1..Len(tried) |-> tried[i].doc]
  /\ pc \in {"connecting", "serving"}
     => LET loaded == SelectSeq(ConfiguredUrls(input), Loads)
        IN /\ Len(ret) = Len(ConfiguredUrls(input))
           /\ docs = [i \in 1..Len(loaded) |-> loaded[i].doc]

\* A failing location first, a loading one after it, and another failure.
C19_Witness ==
  /\ pc = "connecting"
  /\ ret = <<"failed", "loaded", "failed">>
  /\ Len(docs) = 1

(* C20: if the access token is absent (unset or empty) at startup, the      *)
(* process terminates in checkEnvironmentVariables: no document is ever     *)
(* loaded, no tool registered, the transport never connected and no         *)
(* invocation served.                                                       *)
C20_NoTokenNoService ==
  ~Truthy(input.env.EBAY_CLIENT_TOKEN)
  => /\ pc \in {"main", "exited"}
     /\ docs = <<>>
     /\ ret = <<>>
     /\ server = NoServer
     /\ requests = <<>>

\* The process has exited for the token alone.
C20_Witness ==
  /\ ~Truthy(input.env.EBAY_CLIENT_TOKEN)
  /\ Truthy(input.env.EBAY_API_ENV)
  /\ ConfiguredUrls(input) # <<>>
  /\ pc = "exited"

----------------------------------------------------------------------------
\* EBAY_API_ENV names one of the two environments, in any letter case.
RecognizedEnv(v) ==
  ToLowerCase(EnvText(v)) \in {<<SANDBOX>>, <<PRODUCTION>>}

(* C21: when EBAY_API_ENV is unset or is not one of "sandbox"/"production"  *)
(* (case-insensitive), the server runs with environment production:         *)
(* findApiEnvironmentByValue returns PRODUCTION and, the token being set,   *)
(* the process starts rather than exiting.                                  *)
C21_DefaultsToProduction ==
  ~RecognizedEnv(input.env.EBAY_API_ENV)
  => /\ USER_ENVIRONMENT = PRODUCTION
     /\ Truthy(input.env.EBAY_CLIENT_TOKEN) => pc # "exited"

----------------------------------------------------------------------------
(* SpecConcurrent: several invocations of the generic invoke tool in        *)
(* flight, interleaved at their awaits.  The variables of the handler are   *)
(* functions of the invocation: requests[i] is what invocation i has sent,  *)
(* ret[i] the answer of the API to it.                                      *)

MaxInFlight == 2

Invocations == 1..MaxInFlight

\* The header map a handler uses is one it shares with the first invocation.
HandlerHeaders_Shared(i) == headers[1]

\* The header map a handler uses: its own const headers.
HandlerHeaders(i) == headers[i]

ConcurrentInput(url, method, hdrs, urlVariables) ==
  [url |-> url, method |-> method, headers |-> hdrs,
   urlVariables |-> urlVariables, urlQueryParams |-> Absent,
   requestBody |-> NoBodyInput, specTitle |-> "Notification API",
   operationId |-> "getTopic"]

ConcurrentInputs ==
  { ConcurrentInput([scheme |-> "https://", host |-> "api.sandbox.ebay.com",
                     path |-> TopicPath, query |-> <<>>], "GET", Absent, Absent),
    ConcurrentInput([scheme |-> "https://", host |-> "api.ebay.com",
                     path |-> SubscriptionTestPath, query |-> <<>>], "POST",
                    Present(<<[k |-> <<"Content-Type">>, v |-> <<<<"text/plain">>>>]>>),
                    Present(<<[k |-> <<"subscription_id">>,
                               v |-> Str(<<"1", "0", "0", "0">>)]>>)),
    ConcurrentInput([scheme |-> "https://", host |-> "api.ebay.com",
                     path |-> SubscriptionTestPath, query |-> <<>>], "POST",
                    Absent, Present(<<>>)) }

ConcurrentResponses ==
  { [kind |-> "doc", doc |-> NotificationDoc(<<>>)],
    [kind |-> "fails", doc |-> EmptyDoc] }

NoOutcome == [ok |-> FALSE, hasResponseData |-> FALSE, text |-> <<>>]

InitConcurrent ==
  /\ USER_ENVIRONMENT \in ApiEnvironment
  /\ input \in [Invocations -> ConcurrentInputs]
  /\ specResponse \in [Invocations -> ConcurrentResponses]
  /\ pc = [i \in Invocations |-> "start"]
  /\ headers = [i \in Invocations |-> <<>>]
  /\ openApiDoc = [i \in Invocations |-> EmptyDoc]
  /\ reqParamValidation = [i \in Invocations |-> NoValidation]
  /\ result = [i \in Invocations |-> NoResult]
  /\ ret = [i \in Invocations |-> NoOutcome]
  /\ requests = [i \in Invocations |-> <<>>]
  /\ docs = <<>>
  /\ server = NoServer

ConcurrentInvokeStart(i) ==
  /\ pc[i] = "start"
  /\ headers' = [headers EXCEPT ![i] = buildHeadersFromInput(input[i].headers, TRUE)]
  /\ requests' = [requests EXCEPT ![i] = Append(@, LookupRequest(input[i]))]
  /\ pc' = [pc EXCEPT ![i] = "awaitSpec"]
  /\ UNCHANGED <<docs, server, USER_ENVIRONMENT, input, specResponse, openApiDoc,
                 reqParamValidation, result, ret>>

ConcurrentSpecLookupFails(i) ==
  /\ pc[i] = "awaitSpec"
  /\ specResponse[i].kind = "fails"
  /\ result' = [result EXCEPT ![i] =
                  CaughtResult([hasResponseData |-> FALSE,
                                text |-> <<"Request failed with status code 500">>])]
  /\ pc' = [pc EXCEPT ![i] = "done"]
  /\ UNCHANGED <<docs, server, USER_ENVIRONMENT, input, specResponse, headers,
                 openApiDoc, reqParamValidation, requests, ret>>

ConcurrentSpecLookupReturns(i) ==
  /\ pc[i] = "awaitSpec"
  /\ specResponse[i].kind # "fails"
  /\ LET doc == parseOpenApiDoc(specResponse[i])
         replacedDomainUrl == replaceDomainNameByEnvironment(input[i].url)
         validation ==
           validateRequestParameters(replacedDomainUrl, doc, input[i].method,
             [urlVariables |-> input[i].urlVariables,
              urlQueryParams |-> input[i].urlQueryParams,
              headers |-> Present(HandlerHeaders(i)),
              requestBody |-> input[i].requestBody])
     IN /\ openApiDoc' = [openApiDoc EXCEPT ![i] = doc]
        /\ reqParamValidation' = [reqParamValidation EXCEPT ![i] = validation]
        /\ IF ~validation.isValid
           THEN /\ result' = [result EXCEPT ![i] =
                                ValidationFailedResult(validation.errors)]
                /\ pc' = [pc EXCEPT ![i] = "done"]
                /\ UNCHANGED requests
           ELSE /\ requests' =
                     [requests EXCEPT ![i] =
                        Append(@, ApiRequest(input[i], HandlerHeaders(i),
                                             replacedDomainUrl))]
                /\ pc' = [pc EXCEPT ![i] = "awaitApi"]
                /\ UNCHANGED result
  /\ UNCHANGED <<docs, server, USER_ENVIRONMENT, input, specResponse, headers, ret>>

ConcurrentApiReturns(i) ==
  /\ pc[i] = "awaitApi"
  /\ \E outcome \in ApiOutcomes :
       /\ ret' = [ret EXCEPT ![i] = outcome]
       /\ result' = [result EXCEPT ![i] =
                       IF outcome.ok THEN SuccessResult(outcome.text)
                       ELSE CaughtResult(outcome)]
  /\ pc' = [pc EXCEPT ![i] = "done"]
  /\ UNCHANGED <<docs, server, USER_ENVIRONMENT, input, specResponse, headers,
                 openApiDoc, reqParamValidation, requests>>

NextConcurrent ==
  \E i \in Invocations :
    \/ ConcurrentInvokeStart(i)
    \/ ConcurrentSpecLookupFails(i)
    \/ ConcurrentSpecLookupReturns(i)
    \/ ConcurrentApiReturns(i)

SpecConcurrent == InitConcurrent /\ [][NextConcurrent]_vars

\* What invocation i computes when it runs with nothing else in flight.
AloneHeaders(i) == buildHeadersFromInput(input[i].headers, TRUE)

AloneUrl(i) == replaceDomainNameByEnvironment(input[i].url)

AloneValidation(i) ==
  validateRequestParameters(AloneUrl(i), parseOpenApiDoc(specResponse[i]),
    input[i].method,
    [urlVariables |-> input[i].urlVariables,
     urlQueryParams |-> input[i].urlQueryParams,
     headers |-> Present(AloneHeaders(i)),
     requestBody |-> input[i].requestBody])

AloneRequests(i) ==
  IF pc[i] = "start" THEN <<>>
  ELSE <<LookupRequest(input[i])>>
       \o (IF /\ pc[i] \in {"awaitApi", "done"}
              /\ specResponse[i].kind # "fails"
              /\ AloneValidation(i).isValid
           THEN <<ApiRequest(input[i], AloneHeaders(i), AloneUrl(i))>>
           ELSE <<>>)

AloneResult(i) ==
  IF specResponse[i].kind = "fails"
  THEN CaughtResult([hasResponseData |-> FALSE,
                     text |-> <<"Request failed with status code 500">>])
  ELSE IF ~AloneValidation(i).isValid
  THEN ValidationFailedResult(AloneValidation(i).errors)
  ELSE IF ret[i].ok THEN SuccessResult(ret[i].text)
  ELSE CaughtResult(ret[i])

(* C22: whatever the other invocations in flight are doing, an invocation   *)
(* validates, sends and answers exactly as it would alone: its validation   *)
(* outcome, the requests it sent and its result are those computed from     *)
(* its own input, its own specification document and the API's answer to    *)
(* it.                                                                      *)
C22_NoInterference ==
  \A i \in Invocations :
    /\ requests[i] = AloneRequests(i)
    /\ (pc[i] \in {"awaitApi", "done"} /\ specResponse[i].kind # "fails")
         => reqParamValidation[i] = AloneValidation(i)
    /\ pc[i] = "done" => result[i] = AloneResult(i)

(* C22: the environment and the token are read once at startup: no step of  *)
(* any invocation changes the environment the others see.                   *)
C22_EnvironmentFixed == [][USER_ENVIRONMENT' = USER_ENVIRONMENT]_vars

\* Two invocations with different inputs and different caller headers have
\* both finished: the first was sent to the API, the second was rejected by
\* validation.
C22_Witness ==
  /\ pc[1] = "done" /\ pc[2] = "done"
  /\ input[1].headers # input[2].headers
  /\ Len(requests[1]) = 2 /\ IsApi(requests[1][2])
  /\ specResponse[2].kind # "fails"
  /\ ~reqParamValidation[2].isValid
  /\ Len(requests[2]) = 1

(* C23: every request sent to the marketplace API was preceded, in the same *)
(* invocation, by a successful validation of the caller's arguments against *)
(* the operation's declared parameters, for the auto-exposed tools as well  *)
(* as for the generic invoke tool.                                          *)
C23_ValidatedBeforeSent ==
  ApiRequests # <<>> => reqParamValidation.isValid

(* C28: for every request sent to the marketplace API, in either            *)
(* environment and from either kind of tool, the Host header equals the     *)
(* host of the URL the request is sent to.                                  *)
C28_HostHeaderIsUrlHost ==
  \A n \in 1..Len(ApiRequests) :
    Get(ApiRequests[n].headers, <<"Host">>) = Str(<<ApiRequests[n].url.host>>)

----------------------------------------------------------------------------
(* SpecValidateAll: validateRequestParameters on inputs that reach every    *)
(* return of the function: a URL no path of the document matches, a method  *)
(* the path has no operation for, and operations whose body is declared     *)
(* under several content types.                                             *)

OrderPath == <<Lit(<<"order">>), Var(<<"order_id">>)>>

Content(type, present, required) ==
  [type |-> type, schema |-> [present |-> present, required |-> required]]

Body(required, content) ==
  [declared |-> TRUE, required |-> required, content |-> content]

AllBodyChoices ==
  { NoBody,
    Body(TRUE, <<Content("application/json", TRUE, {<<"name">>})>>),
    Body(FALSE, <<Content("application/json", TRUE, {<<"name">>})>>),
    Body(TRUE, <<Content("application/json", FALSE, {})>>),
    Body(FALSE, <<Content("application/x-www-form-urlencoded", TRUE, {<<"name">>})>>),
    Body(FALSE, <<Content("multipart/form-data", TRUE, {<<"file">>}),
                  Content("application/json", FALSE, {})>>),
    Body(FALSE, <<Content("multipart/form-data", TRUE, {<<"file">>}),
                  Content("application/x-www-form-urlencoded", TRUE, {<<"name">>})>>),
    Body(TRUE, <<Content("application/x-www-form-urlencoded", TRUE, {<<"file">>}),
                 Content("application/json", TRUE, {<<"name">>})>>),
    Body(TRUE, <<Content("text/plain", TRUE, {<<"name">>})>>) }

AllRequestBodyChoices ==
  { [present |-> FALSE, keys |-> <<>>],
    [present |-> TRUE, keys |-> <<>>],
    [present |-> TRUE, keys |-> <<<<"name">>>>],
    [present |-> TRUE, keys |-> <<<<"file">>>>],
    [present |-> TRUE, keys |-> <<<<"other">>>>] }

AllQueryParamChoices ==
  { <<>>, <<Param(<<"q">>, "query", TRUE, Schema("integer"), "", FALSE)>> }

AllUrlQueryParamChoices ==
  { Absent,
    Present(<<>>),
    Present(<<[k |-> <<"q">>, v |-> Str(<<"3">>)]>>),
    Present(<<[k |-> <<"q">>, v |-> Str(<<"a", "b", "c">>)]>>) }

AllHeaderChoices ==
  { Absent,
    Present(<<>>),
    Present(<<[k |-> <<"X-EBAY-C-MARKETPLACE-ID">>, v |-> Str(<<"EBAY_US">>)]>>) }

InitValidateAll ==
  /\ USER_ENVIRONMENT \in ApiEnvironment
  /\ \E path \in {ItemPath, OrderPath}, method \in {"GET", "POST"},
        pp \in PathParamChoices, qp \in AllQueryParamChoices,
        hp \in HeaderParamChoices, body \in AllBodyChoices,
        uv \in UrlVariableChoices, uq \in AllUrlQueryParamChoices,
        hs \in AllHeaderChoices, rb \in AllRequestBodyChoices :
        input = [url |-> [scheme |-> "https://",
                          host |-> DOMAIN_NAME(USER_ENVIRONMENT),
                          path |-> path, query |-> <<>>],
                 doc |-> OperationDoc(ItemPath, "get",
                           [operationId |-> "getItem",
                            parameters |-> pp \o qp \o hp,
                            requestBody |-> body]),
                 method |-> method,
                 in |-> [urlVariables |-> uv, urlQueryParams |-> uq,
                         headers |-> hs, requestBody |-> rb]]
  /\ pc = "call"
  /\ ret = <<>>
  /\ docs = <<>>
  /\ server = NoServer
  /\ specResponse = EmptyDoc
  /\ headers = <<>>
  /\ openApiDoc = EmptyDoc
  /\ reqParamValidation = NoValidation
  /\ requests = <<>>
  /\ result = NoResult

SpecValidateAll == InitValidateAll /\ [][NextValidate]_vars

\* No path of the document matches the URL; the path has no operation for
\* the method.
NoMatchingPath == input.url.path # input.doc.paths[1].path
NoOperationForMethod ==
  /\ ~NoMatchingPath
  /\ \A i \in 1..Len(input.doc.paths[1].item) :
       input.doc.paths[1].item[i].method # LowerPiece(input.method)

(* C24: every result of validateRequestParameters is valid if and only if   *)
(* its error list is empty, and both early exits (no matching path, no      *)
(* operation for the method) are invalid with exactly one error.            *)
C24_ValidIffNoErrors ==
  pc = "returned"
  => /\ ret[1].isValid <=> ret[1].errors = <<>>
     /\ (NoMatchingPath \/ NoOperationForMethod)
          => ~ret[1].isValid /\ Len(ret[1].errors) = 1

\* The early exit for the method: a POST to a path that has only get.
C24_Witness ==
  /\ pc = "returned"
  /\ NoOperationForMethod
  /\ HasPrefix(ret[1].errors[1], <<"Method ", "POST", " not found for path ">>)

\* The location a message is about, 1..4 for path, query, header, body, told
\* by the words it starts with.
LocationRank(message) ==
  CASE Head(message) \in {"Missing required path parameter: ",
                          "Missing required path parameters: ",
                          "Invalid path parameter ",
                          "Unknown path parameters: "} -> 1
    [] Head(message) \in {"Missing required query parameter: ",
                          "Invalid query parameter "} -> 2
    [] Head(message) \in {"Missing required header parameter: ",
                          "Invalid header parameter "} -> 3
    [] Head(message) \in {"Missing required request body",
                          "Invalid request body: "} -> 4
    [] OTHER -> 0

\* What the check of one location finds in the input, taken alone.
LocationErrors(rank) ==
  CASE rank = 1 -> validateUrlPathParam(input.in.urlVariables, TheOperation.parameters)
    [] rank = 2 -> validateUrlQueryParam(input.in.urlQueryParams, TheOperation.parameters)
    [] rank = 3 -> validateUrlHeaders(input.in.headers, TheOperation.parameters)
    [] rank = 4 -> validateUrlRequestBody(input.in.requestBody, TheOperation.requestBody)

\* The path and the method have matched and the function has returned.
MatchedAndReturned ==
  pc = "returned" /\ ~NoMatchingPath /\ ~NoOperationForMethod

(* C25: once the path and method have matched, the error list holds, for    *)
(* each of the four locations, exactly the violations that location's check *)
(* finds, whatever the other locations' checks found, and the list is in    *)
(* the order path, query, header, body.                                     *)
C25_AllLocationsInOrder ==
  MatchedAndReturned
  => /\ \A rank \in 1..4 :
          SelectSeq(ret[1].errors, LAMBDA e : LocationRank(e) = rank)
            = LocationErrors(rank)
     /\ \A i, j \in 1..Len(ret[1].errors) :
          i < j => LocationRank(ret[1].errors[i]) <= LocationRank(ret[1].errors[j])

\* All four locations are violated by one input.
C25_Witness ==
  /\ MatchedAndReturned
  /\ \A rank \in 1..4 : LocationErrors(rank) # <<>>

\* The caller's map with one more entry; a map that was not given becomes
\* the map of that entry alone.
WithEntry(optional, key, value) ==
  Present(optional.map \o <<[k |-> key, v |-> value]>>)

\* The input with an entry no parameter declares added to the query
\* parameters, and to the headers.
WithUndeclaredQuery(in) ==
  [in EXCEPT !.urlQueryParams = WithEntry(@, <<"undeclared">>, Str(<<"x">>))]

WithUndeclaredHeader(in) ==
  [in EXCEPT !.headers = WithEntry(@, <<"X-Undeclared">>, Str(<<"x">>))]

\* The names of the caller's path variables that no path parameter declares.
UndeclaredPathNames ==
  {k \in Range(Keys(input.in.urlVariables.map)) :
     \A p \in Declared("path") : p.name # k}

(* C26: a caller-supplied path variable that no parameter declares yields   *)
(* an "Unknown path parameters" violation, and an undeclared query          *)
(* parameter or header yields none: the result for the input with an        *)
(* undeclared query entry or header added is the result for the input.      *)
C26_UndeclaredNames ==
  MatchedAndReturned
  => /\ UndeclaredPathNames # {}
          => \E i \in 1..Len(ret[1].errors) :
               Head(ret[1].errors[i]) = "Unknown path parameters: "
     /\ validateRequestParameters(input.url, input.doc, input.method,
                                  WithUndeclaredQuery(input.in)) = ret[1]
     /\ validateRequestParameters(input.url, input.doc, input.method,
                                  WithUndeclaredHeader(input.in)) = ret[1]

\* The body messages of the result, and the two there are.
BodyErrors == SelectSeq(ret[1].errors, LAMBDA e : LocationRank(e) = 4)
ReportsMissingBody == <<"Missing required request body">> \in Range(BodyErrors)
ReportsInvalidBody ==
  \E i \in 1..Len(BodyErrors) : Head(BodyErrors[i]) = "Invalid request body: "

\* The caller's body is absent or has no keys.
EmptyBody == ~input.in.requestBody.present \/ input.in.requestBody.keys = <<>>

\* The positions in ContentTypes of the types the operation declares a
\* schema for.
SchemaPositions ==
  {j \in 1..Len(ContentTypes) :
     \E c \in Range(TheOperation.requestBody.content) :
       c.type = ContentTypes[j] /\ c.schema.present}

\* The caller's body has every property the schema at position j requires.
ConformsAt(j) ==
  \A c \in Range(TheOperation.requestBody.content) :
    (c.type = ContentTypes[j] /\ c.schema.present)
    => c.schema.required \subseteq Range(input.in.requestBody.keys)

\* The missing-body message and the check of a non-empty body, as the
\* claim states them.
BodyMissingAndChecked ==
  /\ ReportsMissingBody
       <=> (TheOperation.requestBody.declared /\ TheOperation.requestBody.required
            /\ EmptyBody)
  /\ (TheOperation.requestBody.declared /\ ~EmptyBody /\ SchemaPositions # {})
       => (ReportsInvalidBody
            <=> ~ConformsAt(CHOOSE j \in SchemaPositions :
                              \A k \in SchemaPositions : j <= k))
  /\ Len(BodyErrors) <= 1

(* C27 as stated: "Missing required request body" exactly when a required   *)
(* body is absent or empty; a non-empty body is checked against the schema  *)
(* of the first of JSON, form-urlencoded, multipart that has one; and no    *)
(* body violation when the operation declares no body, or no schema for     *)
(* any of these types, or the body is empty and not required.               *)
C27_BodyViolations ==
  MatchedAndReturned
  => /\ BodyMissingAndChecked
     /\ (\/ ~TheOperation.requestBody.declared
         \/ SchemaPositions = {}
         \/ EmptyBody /\ ~TheOperation.requestBody.required)
          => BodyErrors = <<>>

(* C27 amended: as stated, except that an operation without a schema for    *)
(* any of the three content types yields no body violation only for a       *)
(* non-empty body: a required body that is absent or empty is reported      *)
(* missing whether or not a schema is declared.                             *)
C27_BodyViolationsMissingFirst ==
  MatchedAndReturned
  => /\ BodyMissingAndChecked
     /\ (\/ ~TheOperation.requestBody.declared
         \/ SchemaPositions = {} /\ ~EmptyBody
         \/ EmptyBody /\ ~TheOperation.requestBody.required)
          => BodyErrors = <<>>

\* The operation lists a form-urlencoded schema before a JSON schema, and
\* the caller's non-empty body conforms to the JSON one only: no violation.
C27_Witness ==
  /\ MatchedAndReturned
  /\ SchemaPositions = {1, 2}
  /\ TheOperation.requestBody.content[1].type = "application/x-www-form-urlencoded"
  /\ ~EmptyBody
  /\ ConformsAt(1) /\ ~ConformsAt(2)
  /\ BodyErrors = <<>>

----------------------------------------------------------------------------
(* SpecFrame: the generic invoke tool on an operation whose query           *)
(* parameters are declared integer, boolean and array, called with string   *)
(* values that validation converts before the schema check.                 *)

SearchPath == <<Lit(<<"item_summary">>), Lit(<<"search">>)>>

LimitParam == Param(<<"limit">>, "query", FALSE, Schema("integer"), "", FALSE)
ActiveParam == Param(<<"active">>, "query", FALSE, Schema("boolean"), "", FALSE)
IdsParam == Param(<<"ids">>, "query", FALSE, ArraySchema("string"), "form", FALSE)

SearchDoc ==
  [basePath |-> <<>>,
   paths |->
     << [path |-> SearchPath,
         item |-> << [method |-> "get",
                      operation |-> [operationId |-> "search",
                                     parameters |-> <<LimitParam, ActiveParam, IdsParam>>,
                                     requestBody |-> NoBody]],
                     [method |-> "post",
                      operation |->
                        [operationId |-> "searchByImage",
                         parameters |-> <<LimitParam>>,
                         requestBody |->
                           [declared |-> TRUE, required |-> TRUE,
                            content |-> <<[type |-> "application/json",
                                           schema |-> [present |-> TRUE,
                                                       required |-> {<<"image">>}]]>>]]] >>] >>]

\* The maps the caller may give: each of limit, active, ids left out or
\* given as one of its strings, in that order.
OneOrNone(key, texts) ==
  {<<>>} \cup {<<[k |-> key, v |-> Str(text)]>> : text \in texts}

FrameQueryParams ==
  {Absent}
  \cup {Present(l \o a \o i) :
          l \in OneOrNone(<<"limit">>, {<<"3">>, <<"a", "b", "c">>}),
          a \in OneOrNone(<<"active">>, {<<"T", "R", "U", "E">>, <<"a", "b", "c">>}),
          i \in OneOrNone(<<"ids">>, {<<"3", ",", "4", ",", "5">>})}

FrameBodies ==
  { NoBodyInput,
    [present |-> TRUE, keys |-> <<<<"image">>>>],
    [present |-> TRUE, keys |-> <<<<"image">>, <<"sort">>>>] }

InitFrame ==
  /\ USER_ENVIRONMENT \in ApiEnvironment
  /\ specResponse \in {[kind |-> "doc", doc |-> SearchDoc],
                        [kind |-> "fails", doc |-> EmptyDoc]}
  /\ input \in [url : {[scheme |-> "https://", host |-> "api.ebay.com",
                         path |-> SearchPath, query |-> <<>>]},
                 method : {"GET", "POST"},
                 headers : {Absent},
                 urlVariables : {Absent},
                 urlQueryParams : FrameQueryParams,
                 requestBody : FrameBodies,
                 specTitle : {"Browse API"},
                 operationId : {"search"}]
  /\ pc = "start"
  /\ headers = <<>>
  /\ openApiDoc = EmptyDoc
  /\ reqParamValidation = NoValidation
  /\ requests = <<>>
  /\ result = NoResult
  /\ ret = <<>>
  /\ docs = <<>>
  /\ server = NoServer

SpecFrame == InitFrame /\ [][Next]_vars

\* The operation of SearchDoc the invocation's method selects.
FrameOperation ==
  OperationOf(SearchDoc.paths[1].item, LowerPiece(input.method))

\* Validation converted at least one of the caller's query values.
SomeValueCoerced ==
  \E e \in Range(input.urlQueryParams.map) :
    \E param \in Range(FrameOperation.parameters) :
      param.name = e.k /\ QueryValidationValue(param, e.v) # e.v

(* C29: validation leaves its inputs as they were: the query-parameter map  *)
(* and the body of the request the generic invoke tool sends after a        *)
(* successful validation are the caller's original values, not the numbers, *)
(* booleans and arrays validation converted them to.                        *)
C29_OriginalsSent ==
  \A n \in 1..Len(ApiRequests) :
    /\ reqParamValidation.isValid
    /\ ApiRequests[n].params = input.urlQueryParams
    /\ ApiRequests[n].data = input.requestBody

\* A request was sent for an input of which validation converted an
\* integer, a boolean and an array value.
C29_Witness ==
  /\ Len(ApiRequests) = 1
  /\ SomeValueCoerced
  /\ Len(input.urlQueryParams.map) = 3
  /\ ApiRequests[1].params.map[1].v = Str(<<"3">>)
  /\ ApiRequests[1].params.map[2].v = Str(<<"T", "R", "U", "E">>)
  /\ ApiRequests[1].params.map[3].v = Str(<<"3", ",", "4", ",", "5">>)

\* The caller gave a string for q, declared with a plain boolean schema.
BooleanQueryCase ==
  \E text \in QueryStrings : QueryCase("boolean", text)

GivenText == input.in.urlQueryParams.map[1].v.s

\* The query messages of the result.
QueryErrors == SelectSeq(ret[1].errors, LAMBDA e : LocationRank(e) = 2)

\* The string is converted to true when it is "true" in any letter case and
\* to false otherwise.
CoercedToBoolean ==
  QueryValidationValue(TheQueryParam, Str(GivenText))
    = Bool(ToLowerCase(GivenText) = <<"t", "r", "u", "e">>)

(* C30 as stated: against a boolean schema every string other than "true"   *)
(* is converted to false and passes the type check: no string value         *)
(* produces a query violation.                                              *)
C30_NoStringViolates ==
  BooleanQueryCase => (CoercedToBoolean /\ QueryErrors = <<>>)

(* C30 amended: every string is converted to true or false and none fails   *)
(* the type check; the one string that produces a violation is the empty    *)
(* string given for a required parameter, reported as a missing parameter   *)
(* before any conversion.                                                   *)
C30_OnlyEmptyRequiredViolates ==
  BooleanQueryCase
  => /\ CoercedToBoolean
     /\ ~ReportsInvalidQuery(ret[1].errors, <<"q">>)
     /\ IF TheQueryParam.required /\ GivenText = <<>>
        THEN QueryErrors = <<MissingMessage(TheQueryParam)>>
        ELSE QueryErrors = <<>>

\* "abc" was given for a boolean parameter and the result has no query
\* violation.
C30_Witness ==
  /\ pc = "returned"
  /\ QueryCase("boolean", <<"a", "b", "c">>)
  /\ QueryValidationValue(TheQueryParam, Str(<<"a", "b", "c">>)) = Bool(FALSE)
  /\ QueryErrors = <<>>

====
